---- MODULE Spec2Model ----
(***************************************************************************)
(* J-context: the file indexer (jcontext/file_indexer.py).  The model      *)
(* covers FileIndexer's rebuild (refresh_index with its counting and build *)
(* passes, cancellation, progress and terminal events), its unlocked       *)
(* readers, and the tiered search_files lookup.                            *)
(*                                                                         *)
(* Strings are sequences of one-character strings, so that lower(),       *)
(* startswith, substring tests, splitext and relpath are computed.         *)
(***************************************************************************)
EXTENDS Integers, Sequences, FiniteSets, TLC

(***************************************************************************)
(* Strings                                                                 *)
(***************************************************************************)
UpperChars == <<"A", "B", "C", "D", "E", "F", "G", "H", "I", "J", "K", "L", "M", "N", "O", "P", "Q", "R", "S", "T", "U", "V", "W", "X", "Y", "Z">>

LowerChars == <<"a", "b", "c", "d", "e", "f", "g", "h", "i", "j", "k", "l", "m", "n", "o", "p", "q", "r", "s", "t", "u", "v", "w", "x", "y", "z">>

\* the lower-case letter of each upper-case letter
LowerOf ==
    [c \in {UpperChars[i] : i \in 1..Len(UpperChars)} |->
        LowerChars[CHOOSE i \in 1..Len(UpperChars) : UpperChars[i] = c]]

\* str.lower() on one character
LowerChar(c) == IF c \in DOMAIN LowerOf THEN LowerOf[c] ELSE c

\* str.lower()
Lower(s) == [i \in 1..Len(s) |-> LowerChar(s[i])]

\* str.startswith(p)
StartsWith(s, p) == Len(p) <= Len(s) /\ SubSeq(s, 1, Len(p)) = p

\* p in s
Contains(s, p) ==
    \E i \in 0..(Len(s) - Len(p)) : SubSeq(s, i + 1, i + Len(p)) = p

\* s[n:]
Drop(s, n) == SubSeq(s, n + 1, Len(s))

\* s[:n], n >= 0
Take(s, n) == SubSeq(s, 1, IF n < Len(s) THEN n ELSE Len(s))

\* the characters str.strip() removes, among those in use
Whitespace == {" ", "\n", "\t", "\r"}

RECURSIVE LStrip(_)
LStrip(s) == IF s # <<>> /\ Head(s) \in Whitespace THEN LStrip(Tail(s)) ELSE s

RECURSIVE RStrip(_)
RStrip(s) ==
    IF s # <<>> /\ s[Len(s)] \in Whitespace THEN RStrip(SubSeq(s, 1, Len(s) - 1)) ELSE s

\* str.strip()
Strip(s) == RStrip(LStrip(s))

\* os.path.splitext(name)[1]: from the last dot, unless only dots precede it
SplitExt(name) ==
    LET dots == {i \in 1..Len(name) : name[i] = "."}
    IN  IF dots = {} THEN <<>>
        ELSE LET last == CHOOSE i \in dots : \A j \in dots : j <= i
             IN  IF \A j \in 1..(last - 1) : name[j] = "." THEN <<>>
                 ELSE Drop(name, last - 1)

RECURSIVE JoinPath(_)
\* "/".join(components)
JoinPath(comps) ==
    IF comps = <<>> THEN <<>>
    ELSE IF Len(comps) = 1 THEN comps[1]
    ELSE comps[1] \o <<"/">> \o JoinPath(Tail(comps))

RECURSIVE CommonLen(_, _)
CommonLen(a, b) ==
    IF a # <<>> /\ b # <<>> /\ Head(a) = Head(b)
    THEN 1 + CommonLen(Tail(a), Tail(b)) ELSE 0

\* os.path.relpath(path, start) on absolute paths given as component lists
RelPath(path, start) ==
    LET n   == CommonLen(path, start)
        ups == [i \in 1..(Len(start) - n) |-> <<".", ".">>]
        rel == ups \o Drop(path, n)
    IN  IF rel = <<>> THEN <<".">> ELSE JoinPath(rel)

(***************************************************************************)
(* FileIndexer configuration                                               *)
(***************************************************************************)
indexed_extensions == {
    <<".", "p", "y">>, <<".", "j", "s">>, <<".", "t", "s">>, <<".", "j", "s", "x">>,
    <<".", "t", "s", "x">>, <<".", "j", "a", "v", "a">>, <<".", "c", "p", "p">>,
    <<".", "c">>, <<".", "h">>, <<".", "c", "s">>, <<".", "p", "h", "p">>,
    <<".", "r", "b">>, <<".", "g", "o">>, <<".", "r", "s">>,
    <<".", "s", "w", "i", "f", "t">>, <<".", "k", "t">>, <<".", "s", "c", "a", "l", "a">>,
    <<".", "h", "t", "m", "l">>, <<".", "c", "s", "s">>, <<".", "s", "c", "s", "s">>,
    <<".", "l", "e", "s", "s">>, <<".", "x", "m", "l">>, <<".", "j", "s", "o", "n">>,
    <<".", "y", "a", "m", "l">>, <<".", "y", "m", "l">>, <<".", "m", "d">>,
    <<".", "t", "x", "t">>, <<".", "r", "s", "t">>, <<".", "s", "q", "l">>,
    <<".", "s", "h">>, <<".", "b", "a", "t">>, <<".", "p", "s", "1">>, <<".", "r">>,
    <<".", "m">> }

ignored_dirs == {
    <<"_", "_", "p", "y", "c", "a", "c", "h", "e", "_", "_">>, <<".", "g", "i", "t">>,
    <<".", "s", "v", "n">>, <<".", "h", "g">>, <<".", "v", "s", "c", "o", "d", "e">>,
    <<".", "i", "d", "e", "a">>,
    <<"n", "o", "d", "e", "_", "m", "o", "d", "u", "l", "e", "s">>,
    <<".", "e", "n", "v">>, <<"v", "e", "n", "v">>, <<".", "v", "e", "n", "v">>,
    <<"e", "n", "v">>, <<"E", "N", "V">>, <<"d", "i", "s", "t">>,
    <<"b", "u", "i", "l", "d">>, <<"t", "a", "r", "g", "e", "t">>, <<"b", "i", "n">>,
    <<"o", "b", "j">>, <<".", "p", "y", "t", "e", "s", "t", "_", "c", "a", "c", "h", "e">> }

\* the dot-prefixed names that are not skipped
DotExceptions == {
    <<".", "g", "i", "t", "i", "g", "n", "o", "r", "e">>,
    <<".", "e", "n", "v", ".", "e", "x", "a", "m", "p", "l", "e">> }

(***************************************************************************)
(* The index: a dict from search key to a set of relative paths.  A dict   *)
(* iterates in insertion order, so the keys are kept as a sequence; a set  *)
(* iterates in an order the program does not control, so a search is given *)
(* an enumeration of every set (SetOrders).                                *)
(***************************************************************************)
EmptyIndex == [order |-> <<>>, map |-> [k \in {} |-> {}]]

\* self.file_index.setdefault(key, set()).add(path)
IndexAdd(idx, key, path) ==
    IF key \in DOMAIN idx.map
    THEN [idx EXCEPT !.map[key] = @ \cup {path}]
    ELSE [order |-> Append(idx.order, key), map |-> idx.map @@ (key :> {path})]

\* the registration under the bare filename only
AddFileNameOnly(idx, name, rel) == IndexAdd(idx, name, rel)

\* the two registrations made for one indexed file
AddFile(idx, name, rel) == IndexAdd(IndexAdd(idx, name, rel), rel, rel)

\* the distinct paths of the index, as get_indexed_files_count / get_all_files
\* collect them
IndexedPaths(idx) == UNION {idx.map[k] : k \in DOMAIN idx.map}

get_indexed_files_count(idx) == Cardinality(IndexedPaths(idx))

RECURSIVE Perms(_)
Perms(S) ==
    IF S = {} THEN {<<>>}
    ELSE UNION {{<<x>> \o p : p \in Perms(S \ {x})} : x \in S}

RECURSIVE OrdersOf(_, _)
OrdersOf(keys, map) ==
    IF keys = <<>> THEN {[k \in {} |-> <<>>]}
    ELSE {f @@ (Head(keys) :> p) : f \in OrdersOf(Tail(keys), map),
                                   p \in Perms(map[Head(keys)])}

\* every way the sets of the index can be enumerated
SetOrders(idx) == OrdersOf(idx.order, idx.map)

(***************************************************************************)
(* re.compile(query, re.IGNORECASE) and pattern.search(key), for patterns  *)
(* over literals, ".", "*", "(" and a counted repetition whose count is    *)
(* too large for the regex engine (one token of the alphabet).             *)
(***************************************************************************)
BigRepeat == "{4294967296}"

RECURSIVE ReScan(_, _, _)
\* prev: "none" | "atom" | "rep"; opened: number of "(" not closed
ReScan(q, prev, opened) ==
    IF q = <<>> THEN (IF opened > 0 THEN "error" ELSE "ok")
    ELSE LET c == Head(q) IN
         IF c = BigRepeat THEN "overflow"
         ELSE IF c = "(" THEN ReScan(Tail(q), "none", opened + 1)
         ELSE IF c = "*" THEN (IF prev = "atom" THEN ReScan(Tail(q), "rep", opened)
                               ELSE "error")
         ELSE ReScan(Tail(q), "atom", opened)

\* "ok", "error" (re.error) or "overflow" (OverflowError)
ReCompile(q) == ReScan(q, "none", 0)

AtomMatches(a, c) == a = "." \/ LowerChar(a) = LowerChar(c)

RECURSIVE MatchHere(_, _)
MatchHere(re, s) ==
    IF re = <<>> THEN TRUE
    ELSE IF Len(re) >= 2 /\ re[2] = "*"
    THEN \E n \in 0..Len(s) :
            /\ \A i \in 1..n : AtomMatches(re[1], s[i])
            /\ MatchHere(Drop(re, 2), Drop(s, n))
    ELSE /\ s # <<>>
         /\ AtomMatches(re[1], s[1])
         /\ MatchHere(Tail(re), Tail(s))

\* pattern.search(key)
ReSearch(re, key) == \E i \in 0..Len(key) : MatchHere(re, Drop(key, i))

(***************************************************************************)
(* search_files                                                            *)
(***************************************************************************)
\* the query as cleaned under the lock
CleanQuery(query) ==
    LET q == Strip(query) IN IF q # <<>> /\ Head(q) = "@" THEN Tail(q) ELSE q

\* TierOf with the exact test comparing the lowered key with the query as typed
TierOfQueryAsTyped(key, q, use_regex) ==
    IF Lower(key) = q THEN "exact"
    ELSE IF StartsWith(Lower(key), Lower(q)) THEN "prefix"
    ELSE IF Contains(Lower(key), Lower(q)) THEN "contains"
    ELSE IF use_regex /\ ReSearch(q, key) THEN "regex"
    ELSE "none"

\* the branch of the if/elif chain a key takes
TierOf(key, q, use_regex) ==
    IF Lower(key) = Lower(q) THEN "exact"
    ELSE IF StartsWith(Lower(key), Lower(q)) THEN "prefix"
    ELSE IF Contains(Lower(key), Lower(q)) THEN "contains"
    ELSE IF use_regex /\ ReSearch(q, key) THEN "regex"
    ELSE "none"

RECURSIVE TierMatches(_, _, _, _, _)
\* one of exact_matches, prefix_matches, contains_matches, regex_matches
TierMatches(keys, ord, q, use_regex, tier) ==
    IF keys = <<>> THEN <<>>
    ELSE (IF TierOf(Head(keys), q, use_regex) = tier THEN ord[Head(keys)] ELSE <<>>)
         \o TierMatches(Tail(keys), ord, q, use_regex, tier)

\* CombineTiers with the substring tier taken before the prefix tier
CombineTiersContainsFirst(exact, prefix, contains, regex, limit) ==
    LET m1 == Take(exact, limit)
        m2 == IF limit - Len(m1) > 0 THEN m1 \o Take(contains, limit - Len(m1)) ELSE m1
        m3 == IF limit - Len(m1) > 0 /\ limit - Len(m2) > 0
              THEN m2 \o Take(prefix, limit - Len(m2)) ELSE m2
        m4 == IF limit - Len(m1) > 0 /\ limit - Len(m2) > 0 /\ limit - Len(m3) > 0
              THEN m3 \o Take(regex, limit - Len(m3)) ELSE m3
    IN  m4

\* the tiers concatenated in order of preference, each cut to what remains
CombineTiers(exact, prefix, contains, regex, limit) ==
    LET m1 == Take(exact, limit)
        m2 == IF limit - Len(m1) > 0 THEN m1 \o Take(prefix, limit - Len(m1)) ELSE m1
        m3 == IF limit - Len(m1) > 0 /\ limit - Len(m2) > 0
              THEN m2 \o Take(contains, limit - Len(m2)) ELSE m2
        m4 == IF limit - Len(m1) > 0 /\ limit - Len(m2) > 0 /\ limit - Len(m3) > 0
              THEN m3 \o Take(regex, limit - Len(m3)) ELSE m3
    IN  m4

\* Unique with nothing removed
UniqueKeepsAll(matches, seen) == matches

RECURSIVE Unique(_, _)
\* remove duplicates while preserving order
Unique(matches, seen) ==
    IF matches = <<>> THEN <<>>
    ELSE IF Head(matches) \in seen THEN Unique(Tail(matches), seen)
    ELSE <<Head(matches)>> \o Unique(Tail(matches), seen \cup {Head(matches)})

Returned(paths) == [raised |-> FALSE, paths |-> paths]

Raised == [raised |-> TRUE, paths |-> <<>>]

\* the body of search_files that runs with the lock held
SearchLocked(idx, ord, query, limit) ==
    LET q == CleanQuery(query) IN
    IF q = <<>> THEN Returned(<<>>)
    ELSE IF ReCompile(q) = "overflow" THEN Raised
    ELSE LET use_regex == ReCompile(q) = "ok"
             T(tier)   == TierMatches(idx.order, ord, q, use_regex, tier)
             matches   == CombineTiers(T("exact"), T("prefix"), T("contains"),
                                       T("regex"), limit)
         IN  Returned(Take(Unique(matches, {}), limit))

\* the test made before the lock is taken
SearchEarlyReturn(idx, query) == query = <<>> \/ idx.order = <<>>

\* search_files run without interleaving
search_files(idx, ord, query, limit) ==
    IF SearchEarlyReturn(idx, query) THEN Returned(<<>>)
    ELSE SearchLocked(idx, ord, query, limit)

(***************************************************************************)
(* The directory tree.  A directory is the list of its path components; a  *)
(* tree maps each directory to the entries os.scandir yields, in the order *)
(* it yields them.                                                         *)
(***************************************************************************)
File(name) == [name |-> name, kind |-> "file"]

Dir(name) == [name |-> name, kind |-> "dir"]

\* neither a regular file nor a directory (a symlink, a socket)
Other(name) == [name |-> name, kind |-> "other"]

RootP == <<<<"p">>>>

RootQ == <<<<"q">>>>

\* the tree the rebuilds of Spec scan
MainTree ==
    (RootP :> << File(<<"a", ".", "p", "y">>), Dir(<<"s">>) >>)
 @@ (RootP \o <<<<"s">>>> :> << File(<<"a", ".", "p", "y">>) >>)
 @@ (RootQ :> << File(<<"c", ".", "j", "s">>) >>)

\* directories whose os.scandir raises PermissionError
DeniedDirs == {RootP \o <<<<"k">>>>}

\* the paths set_root_path is called with
RootChoices == {RootP, RootQ, <<<<"n", "o", "w", "h", "e", "r", "e">>>>}

(***************************************************************************)
(* The filters of _count_files and _build_index                            *)
(***************************************************************************)
\* name.startswith('.') and name not in {'.gitignore', '.env.example'}
Hidden(name) == name # <<>> /\ name[1] = "." /\ name \notin DotExceptions

\* ext.lower() in self.indexed_extensions or not ext
IsIndexedFile(name) ==
    Lower(SplitExt(name)) \in indexed_extensions \/ SplitExt(name) = <<>>

\* a directory entry that is not hidden, whatever its name
IsDescendedAlsoIgnored(e) == ~Hidden(e.name) /\ e.kind = "dir"

\* the directory entry is descended into
IsDescended(e) == ~Hidden(e.name) /\ e.kind = "dir" /\ e.name \notin ignored_dirs

\* a file entry that is not hidden, whatever its extension
IsEligibleAnyExtension(e) == ~Hidden(e.name) /\ e.kind = "file"

\* the file entry is counted / indexed
IsEligible(e) == ~Hidden(e.name) /\ e.kind = "file" /\ IsIndexedFile(e.name)

\* os.scandir(dir) when every directory can be read
ScandirAllReadable(tree, dir) == IF dir \notin DOMAIN tree THEN "error" ELSE "ok"

\* os.scandir(dir) on an unchanging tree: "ok", "denied" for PermissionError,
\* "error" for a directory that does not exist
Scandir(tree, dir) ==
    IF dir \notin DOMAIN tree THEN "error"
    ELSE IF dir \in DeniedDirs THEN "denied" ELSE "ok"

\* os.scandir(dir) outcomes: "ok", "denied" (PermissionError, handled where it
\* is raised) or "error" (any other OSError, e.g. the directory has vanished);
\* `may_fail` says whether a failure of the second kind can still be injected
ScandirOutcomes(tree, dir, may_fail) ==
    {Scandir(tree, dir)} \cup (IF may_fail THEN {"error"} ELSE {})

RECURSIVE ScanDir(_, _, _, _, _)
\* _build_index(dir) run to its end with no cancellation and no error: the
\* index after the entries of dir from position i on have been handled
ScanDir(tree, root, dir, i, idx) ==
    IF i > Len(tree[dir]) THEN idx
    ELSE LET e   == tree[dir][i]
             sub == dir \o <<e.name>>
         IN  IF IsDescended(e)
             THEN ScanDir(tree, root, dir, i + 1,
                          IF Scandir(tree, sub) = "ok"
                          THEN ScanDir(tree, root, sub, 1, idx) ELSE idx)
             ELSE IF IsEligible(e)
             THEN ScanDir(tree, root, dir, i + 1, AddFile(idx, e.name, RelPath(sub, root)))
             ELSE ScanDir(tree, root, dir, i + 1, idx)

\* the index a complete, undisturbed build pass over root produces
ScanAll(tree, root) ==
    IF Scandir(tree, root) = "ok" THEN ScanDir(tree, root, root, 1, EmptyIndex)
    ELSE EmptyIndex

(***************************************************************************)
(* sorted() on strings: code-point order of the characters in use          *)
(***************************************************************************)
CodeOrder ==
    <<" ", "(", "*", ".", "/", "0", "1", "2", "3", "4", "5", "6", "7", "8", "9", "@">>
    \o UpperChars \o <<"_">> \o LowerChars \o <<"{">>

Code(c) == CHOOSE i \in 1..Len(CodeOrder) : CodeOrder[i] = c

RECURSIVE StrLess(_, _)
StrLess(a, b) ==
    IF b = <<>> THEN FALSE
    ELSE IF a = <<>> THEN TRUE
    ELSE IF Head(a) = Head(b) THEN StrLess(Tail(a), Tail(b))
    ELSE Code(Head(a)) < Code(Head(b))

RECURSIVE Sorted(_)
Sorted(S) ==
    IF S = {} THEN <<>>
    ELSE LET m == CHOOSE x \in S : \A y \in S \ {x} : StrLess(x, y)
         IN  <<m>> \o Sorted(S \ {m})

\* get_all_files
get_all_files(idx) == Sorted(IndexedPaths(idx))

(***************************************************************************)
(* Bounds                                                                  *)
(***************************************************************************)
\* refresh_index / set_root_path calls made in one behaviour
MaxRebuilds == 2

\* failures of os.scandir other than PermissionError injected in one behaviour
MaxErrors == 1

\* largest limit passed to search_files
MaxLimit == 2

(***************************************************************************)
(* State                                                                   *)
(***************************************************************************)
\* the threads that call refresh_index / set_root_path
Workers == {"w1", "w2"}

\* the threads are interchangeable: a call made while no rebuild is running
\* is made by w1
FirstWorker == "w1"

NoRoot == <<>>

ZeroStats == [files_processed |-> 0, total_files |-> 0, current_dir |-> <<>>]

\* files_processed values at which _build_index reports progress
ProgressEvery == 50

VARIABLES
    fs,                 \* the directory tree on disk
    root_path,          \* self.root_path, NoRoot for None
    file_index,         \* self.file_index
    _cancel_indexing,   \* self._cancel_indexing
    _indexing_stats,    \* self._indexing_stats
    _lock,              \* holder of self._lock: a worker, "search" or "none"
    progress_callback,  \* self.progress_callback is set
    update_callback,    \* self.update_callback is set
    pc,                 \* per worker: where its refresh_index call stands
    stack,              \* per worker: the frames of _count_files / _build_index
    calls,              \* per worker: the callback calls its current rebuild made
    spc,                \* the search_files caller: "idle", "wait" or "done"
    sarg,               \* the arguments of the search_files call
    sres,               \* what the search_files call returned
    rd,                 \* the last result of an unlocked reader
    nstarts,            \* refresh_index calls made so far
    errs,               \* scandir failures injected so far
    hist,               \* per worker: what happened during its current rebuild
    visible,            \* the index as it stood when the lock was last free
    last_writer,        \* the worker that last cleared the index
    cp,                 \* the ContentProcessor call in progress and its results
    history,            \* HistoryManager.history
    history_file,       \* the entries last saved to the history file
    clock,              \* the clock, in seconds
    ncalls,             \* HistoryManager and ProjectManager calls made so far
    hcall,              \* the last HistoryManager call and what it returned
    projects,           \* ProjectManager.projects: project id -> its dict
    project_dicts,      \* the project dicts ever made, by reference
    current_project_id, \* ProjectManager.current_project_id
    current_project_data, \* ProjectManager.current_project_data: a reference
                        \* to a project dict
    app_data_dir,       \* ProjectManager.app_data_dir
    projects_file,      \* per data directory: the projects last saved there
    pcall               \* the last ProjectManager call and what it returned

vars == <<fs, root_path, file_index, _cancel_indexing, _indexing_stats, _lock,
          progress_callback, update_callback, pc, stack, calls, spc, sarg, sres,
          rd, nstarts, errs, hist, visible, last_writer, cp, history,
          history_file, clock, ncalls, hcall, projects, project_dicts,
          current_project_id, current_project_data, app_data_dir,
          projects_file, pcall>>

\* the state of the HistoryManager and of the ProjectManager
managers == <<history, history_file, clock, ncalls, hcall, projects,
              project_dicts, current_project_id, current_project_data,
              app_data_dir, projects_file, pcall>>

\* the indexer's own fields
indexer == <<root_path, file_index, _cancel_indexing, _indexing_stats, _lock,
             progress_callback, update_callback>>

\* the state of the search_files caller and of the readers
readers == <<spc, sarg, sres, rd>>

Active(w) == pc[w] \notin {"idle", "done"}

\* The GUI configures an indexer (set_root_path, set_update_callback,
\* set_progress_callback) from its main thread, in ProjectTab.__init__, and
\* not while one of the threads it starts runs refresh_index.
Configurable == \A w \in Workers : ~Active(w)

NoHist == [rebuild |-> FALSE, cb |-> FALSE, root |-> NoRoot, pre |-> EmptyIndex,
           cancelled |-> FALSE, error |-> FALSE, alone |-> TRUE, asked |-> FALSE,
           seen |-> FALSE]

NoRead == [op |-> "none", count |-> 0, files |-> <<>>]

\* no text is being processed
NoText == [stage |-> "none", text |-> <<>>, edits |-> <<>>, rendered |-> <<>>,
           shown |-> <<>>, path |-> <<>>, body |-> <<>>, old |-> <<>>,
           from |-> "none", raised |-> FALSE, raw |-> <<>>, found |-> <<>>]

\* Python's None where a string may stand
PyNone == <<"None">>

\* Python's None where a history entry may stand
NoPrompt == [id |-> PyNone]

\* no HistoryManager call was made
NoHCall == [op |-> "none", id |-> <<>>, text |-> <<>>, title |-> <<>>,
            result |-> PyNone, before |-> <<>>]

\* Python's None where a reference to a project dict may stand
NoRef == 0

\* no ProjectManager call was made; prior is the call made before the last
\* one and before is the projects map as it stood when the last one began
NoPCall == [op |-> "none", path |-> <<>>, id |-> <<>>, result |-> PyNone,
            before |-> <<>>,
            prior |-> [op |-> "none", path |-> <<>>, id |-> <<>>]]

\* the data directories in use
DataDirs == {"d1", "d2"}

\* no prompt history and no project: neither manager is in use
ManagersIdle ==
    /\ history = <<>>
    /\ history_file = <<>>
    /\ clock = 0
    /\ ncalls = 0
    /\ hcall = NoHCall
    /\ projects = <<>>
    /\ project_dicts = [dicts |-> <<>>, settings |-> <<>>]
    /\ current_project_id = PyNone
    /\ current_project_data = NoRef
    /\ app_data_dir = "d1"
    /\ projects_file = [d \in DataDirs |-> <<>>]
    /\ pcall = NoPCall

InitCommon ==
    /\ _cancel_indexing = FALSE
    /\ _indexing_stats = ZeroStats
    /\ _lock = "none"
    /\ progress_callback = FALSE
    /\ update_callback = FALSE
    /\ pc = [w \in Workers |-> "idle"]
    /\ stack = [w \in Workers |-> <<>>]
    /\ calls = [w \in Workers |-> <<>>]
    /\ spc = "idle"
    /\ sarg = [query |-> <<>>, limit |-> 0]
    /\ sres = Returned(<<>>)
    /\ rd = NoRead
    /\ nstarts = 0
    /\ errs = 0
    /\ hist = [w \in Workers |-> NoHist]
    /\ last_writer = "none"
    /\ cp = NoText
    /\ ManagersIdle

\* FileIndexer() on the main tree
Init ==
    /\ fs = MainTree
    /\ root_path = NoRoot
    /\ file_index = EmptyIndex
    /\ visible = EmptyIndex
    /\ InitCommon

(***************************************************************************)
(* The callbacks                                                           *)
(***************************************************************************)
Progress(st) == [t |-> "progress", fp |-> st.files_processed,
                 total |-> st.total_files, dir |-> st.current_dir]

\* {'completed': True}, {'cancelled': True}, {'error': ...}; "update" is a
\* call of update_callback
Event(t) == [t |-> t, fp |-> 0, total |-> 0, dir |-> <<>>]

TerminalTypes == {"completed", "cancelled", "error"}

\* self.progress_callback(e) for each e of es, if a callback is set
Deliver(w, es) ==
    calls' = [calls EXCEPT ![w] = @ \o (IF progress_callback THEN es ELSE <<>>)]

\* _report_progress after a change of the statistics, when due
ReportIfDue(st) ==
    IF st.files_processed % ProgressEvery = 0 THEN <<Progress(st)>> ELSE <<>>

(***************************************************************************)
(* refresh_index                                                           *)
(***************************************************************************)
Top(stk) == stk[Len(stk)]

Pop(stk) == SubSeq(stk, 1, Len(stk) - 1)

Frame(dir) == [dir |-> dir, i |-> 1, count |-> 0]

\* the frame on top moves to its next entry
Advance(stk) == [stk EXCEPT ![Len(stk)].i = @ + 1]

\* what a worker that starts a rebuild does to the records of the others
Overlap(w, r) ==
    [v \in Workers |->
        IF v # w /\ Active(v)
        THEN [hist[v] EXCEPT !.alone = FALSE]
        ELSE hist[v]]

\* the record of w when a level of its traversal leaves its loop: `broke`
\* says that entries were left, so that the level has seen the cancel flag,
\* and `last` that the level is the outermost one of the counting pass, whose
\* traversal ends here
Leaves(w, broke, last) ==
    [hist EXCEPT ![w].seen = IF last THEN FALSE ELSE @ \/ broke]

\* refresh_index up to the try statement, self.root_path being r
BeginRefresh(w, r) ==
    /\ pc[w] \in {"idle", "done"}
    /\ (\A v \in Workers : ~Active(v)) => w = FirstWorker
    /\ nstarts < MaxRebuilds
    /\ nstarts' = nstarts + 1
    /\ calls' = [calls EXCEPT ![w] = <<>>]
    /\ IF r = NoRoot
       THEN /\ pc' = [pc EXCEPT ![w] = "done"]
            /\ hist' = [hist EXCEPT ![w] = NoHist]
            /\ UNCHANGED <<_cancel_indexing, _indexing_stats>>
       ELSE /\ pc' = [pc EXCEPT ![w] = "try"]
            /\ _cancel_indexing' = FALSE
            /\ _indexing_stats' = ZeroStats
            /\ hist' = [Overlap(w, r) EXCEPT ![w] =
                          [rebuild |-> TRUE, cb |-> progress_callback, root |-> r,
                           pre |-> file_index, cancelled |-> FALSE, error |-> FALSE,
                           alone |-> \A v \in Workers \ {w} : ~Active(v),
                           asked |-> FALSE, seen |-> FALSE]]
    /\ UNCHANGED <<managers, cp, fs, file_index, _lock, progress_callback, update_callback, stack,
                   readers, errs, visible, last_writer>>

refresh_index(w) ==
    /\ BeginRefresh(w, root_path)
    /\ UNCHANGED root_path

set_root_path(w, path) ==
    /\ Configurable
    /\ path \in DOMAIN fs
    /\ root_path' = path
    /\ BeginRefresh(w, path)

\* an exception leaves the try block with the lock still held
RaiseKeepsLock(w) ==
    /\ pc' = [pc EXCEPT ![w] = "except"]
    /\ stack' = [stack EXCEPT ![w] = <<>>]
    /\ UNCHANGED <<_lock, visible>>
    /\ errs' = errs + 1
    /\ hist' = [hist EXCEPT ![w].error = TRUE]

\* an exception leaves the try block: the with statement releases the lock
Raise(w) ==
    /\ pc' = [pc EXCEPT ![w] = "except"]
    /\ stack' = [stack EXCEPT ![w] = <<>>]
    /\ _lock' = IF _lock = w THEN "none" ELSE _lock
    /\ visible' = IF _lock = w THEN file_index ELSE visible
    /\ errs' = errs + 1
    /\ hist' = [hist EXCEPT ![w].error = TRUE]

\* the first statements of the try block: the 'Scanning...' report and the
\* call of _count_files(self.root_path), when a progress callback is set
RefreshTry(w) ==
    /\ pc[w] = "try"
    /\ IF progress_callback
       THEN LET st == [_indexing_stats EXCEPT !.current_dir = <<"S", "c", "a", "n", "n", "i", "n", "g", ".", ".", ".">>] IN
            \E o \in ScandirOutcomes(fs, root_path, errs < MaxErrors) :
               /\ Deliver(w, <<Progress(st)>>)
               /\ CASE o = "ok" ->
                         /\ _indexing_stats' = st
                         /\ stack' = [stack EXCEPT ![w] = <<Frame(root_path)>>]
                         /\ pc' = [pc EXCEPT ![w] = "count"]
                         /\ UNCHANGED <<_lock, visible, errs, hist>>
                    [] o = "denied" ->
                         /\ _indexing_stats' = [st EXCEPT !.total_files = 0]
                         /\ pc' = [pc EXCEPT ![w] = "lock"]
                         /\ UNCHANGED <<stack, _lock, visible, errs, hist>>
                    [] o = "error" ->
                         /\ _indexing_stats' = st
                         /\ Raise(w)
       ELSE /\ pc' = [pc EXCEPT ![w] = "lock"]
            /\ UNCHANGED <<_indexing_stats, stack, calls, _lock, visible, errs, hist>>
    /\ UNCHANGED <<managers, cp, fs, root_path, file_index, _cancel_indexing, progress_callback,
                   update_callback, readers, nstarts, last_writer>>

\* one iteration of the loop of _count_files in the innermost frame, or its
\* return when the directory is exhausted or the cancel flag is seen
CountStep(w) ==
    /\ pc[w] = "count"
    /\ stack[w] # <<>>
    /\ LET stk  == stack[w]
           f    == Top(stk)
           ents == fs[f.dir]
       IN  IF f.i > Len(ents) \/ _cancel_indexing
           THEN /\ IF Len(stk) = 1
                   THEN /\ _indexing_stats' =
                              [_indexing_stats EXCEPT !.total_files = f.count]
                        /\ pc' = [pc EXCEPT ![w] = "lock"]
                        /\ stack' = [stack EXCEPT ![w] = <<>>]
                   ELSE /\ stack' = [stack EXCEPT ![w] =
                              [Pop(stk) EXCEPT ![Len(stk) - 1].count = @ + f.count]]
                        /\ UNCHANGED <<_indexing_stats, pc>>
                /\ hist' = Leaves(w, f.i <= Len(ents), Len(stk) = 1)
                /\ UNCHANGED <<_lock, visible, errs>>
           ELSE LET e == ents[f.i] IN
                /\ UNCHANGED _indexing_stats
                /\ IF IsDescended(e)
                   THEN \E o \in ScandirOutcomes(fs, f.dir \o <<e.name>>, errs < MaxErrors) :
                          CASE o = "ok" ->
                                 /\ stack' = [stack EXCEPT ![w] =
                                       Append(Advance(stk), Frame(f.dir \o <<e.name>>))]
                                 /\ UNCHANGED <<pc, _lock, visible, errs, hist>>
                            [] o = "denied" ->
                                 /\ stack' = [stack EXCEPT ![w] = Advance(stk)]
                                 /\ UNCHANGED <<pc, _lock, visible, errs, hist>>
                            [] o = "error" -> Raise(w)
                   ELSE /\ stack' = [stack EXCEPT ![w] =
                              IF IsEligible(e)
                              THEN [Advance(stk) EXCEPT ![Len(stk)].count = @ + 1]
                              ELSE Advance(stk)]
                        /\ UNCHANGED <<pc, _lock, visible, errs, hist>>
    /\ UNCHANGED <<managers, cp, fs, root_path, file_index, _cancel_indexing, progress_callback,
                   update_callback, calls, readers, nstarts, last_writer>>

\* with self._lock: entered
AcquireLock(w) ==
    /\ pc[w] = "lock"
    /\ _lock = "none"
    /\ _lock' = w
    /\ pc' = [pc EXCEPT ![w] = "clear"]
    /\ UNCHANGED <<managers, cp, fs, root_path, file_index, _cancel_indexing, _indexing_stats,
                   progress_callback, update_callback, stack, calls, readers,
                   nstarts, errs, hist, visible, last_writer>>

\* the index left as it is
ClearedKeeps(idx) == idx

\* self.file_index.clear()
Cleared(idx) == EmptyIndex

ClearIndex(w) ==
    /\ pc[w] = "clear"
    /\ file_index' = Cleared(file_index)
    /\ last_writer' = w
    /\ pc' = [pc EXCEPT ![w] = "check"]
    /\ UNCHANGED <<managers, cp, fs, root_path, _cancel_indexing, _indexing_stats, _lock,
                   progress_callback, update_callback, stack, calls, readers,
                   nstarts, errs, hist, visible>>

\* leaving the with block normally
Release(w) ==
    /\ _lock' = "none"
    /\ visible' = file_index
    /\ pc' = [pc EXCEPT ![w] = "after"]

\* _build_index(dir) up to its loop, the caller's frames being stk: the
\* statistics name the directory, progress is reported when due, and the
\* directory is opened
BuildEnter(w, dir, stk) ==
    LET rel == IF dir = root_path THEN <<".">> ELSE RelPath(dir, root_path)
        st  == [_indexing_stats EXCEPT !.current_dir = rel]
    IN  /\ _indexing_stats' = st
        /\ Deliver(w, ReportIfDue(st))
        /\ \E o \in ScandirOutcomes(fs, dir, errs < MaxErrors) :
              CASE o = "ok" ->
                     /\ stack' = [stack EXCEPT ![w] = Append(stk, Frame(dir))]
                     /\ pc' = [pc EXCEPT ![w] = "build"]
                     /\ UNCHANGED <<_lock, visible, errs, hist>>
                [] o = "denied" ->
                     /\ stack' = [stack EXCEPT ![w] = stk]
                     /\ pc' = [pc EXCEPT ![w] = "build"]
                     /\ UNCHANGED <<_lock, visible, errs, hist>>
                [] o = "error" -> Raise(w)

\* if not self._cancel_indexing: self._build_index(self.root_path)
BuildCheck(w) ==
    /\ pc[w] = "check"
    /\ IF _cancel_indexing
       THEN /\ Release(w)
            /\ UNCHANGED <<_indexing_stats, stack, calls, errs, hist>>
       ELSE BuildEnter(w, root_path, <<>>)
    /\ UNCHANGED <<managers, cp, fs, root_path, file_index, _cancel_indexing, progress_callback,
                   update_callback, readers, nstarts, last_writer>>

\* one iteration of the loop of _build_index in the innermost frame, or its
\* return when the directory is exhausted or the cancel flag is seen
BuildStep(w) ==
    /\ pc[w] = "build"
    /\ stack[w] # <<>>
    /\ LET stk  == stack[w]
           f    == Top(stk)
           ents == fs[f.dir]
       IN  IF f.i > Len(ents) \/ _cancel_indexing
           THEN /\ stack' = [stack EXCEPT ![w] = Pop(stk)]
                /\ hist' = Leaves(w, f.i <= Len(ents), FALSE)
                /\ UNCHANGED <<file_index, _indexing_stats, calls, pc, _lock, visible,
                               errs>>
           ELSE LET e   == ents[f.i]
                    sub == f.dir \o <<e.name>>
                IN  IF IsDescended(e)
                    THEN /\ BuildEnter(w, sub, Advance(stk))
                         /\ UNCHANGED file_index
                    ELSE IF IsEligible(e)
                    THEN LET st == [_indexing_stats EXCEPT !.files_processed = @ + 1] IN
                         /\ file_index' = AddFile(file_index, e.name, RelPath(sub, root_path))
                         /\ _indexing_stats' = st
                         /\ Deliver(w, ReportIfDue(st))
                         /\ stack' = [stack EXCEPT ![w] = Advance(stk)]
                         /\ UNCHANGED <<pc, _lock, visible, errs, hist>>
                    ELSE /\ stack' = [stack EXCEPT ![w] = Advance(stk)]
                         /\ UNCHANGED <<file_index, _indexing_stats, calls, pc, _lock,
                                        visible, errs, hist>>
    /\ UNCHANGED <<managers, cp, fs, root_path, _cancel_indexing, progress_callback,
                   update_callback, readers, nstarts, last_writer>>

\* _build_index(self.root_path) has returned: last_updated is set (not
\* modelled, nothing reads it) and the with block is left
BuildDone(w) ==
    /\ pc[w] = "build"
    /\ stack[w] = <<>>
    /\ Release(w)
    /\ UNCHANGED <<managers, cp, fs, root_path, file_index, _cancel_indexing, _indexing_stats,
                   progress_callback, update_callback, stack, calls, readers,
                   nstarts, errs, hist, last_writer>>

\* if self.update_callback and not self._cancel_indexing: self.update_callback()
AfterBuild(w) ==
    /\ pc[w] = "after"
    /\ calls' = [calls EXCEPT ![w] =
                   IF update_callback /\ ~_cancel_indexing
                   THEN Append(@, Event("update")) ELSE @]
    /\ pc' = [pc EXCEPT ![w] = "finally"]
    /\ UNCHANGED <<managers, cp, fs, indexer, stack, readers, nstarts, errs, hist, visible,
                   last_writer>>

\* except Exception as e: ... self.progress_callback({'error': str(e)})
Except(w) ==
    /\ pc[w] = "except"
    /\ Deliver(w, <<Event("error")>>)
    /\ pc' = [pc EXCEPT ![w] = "finally"]
    /\ UNCHANGED <<managers, cp, fs, indexer, stack, readers, nstarts, errs, hist, visible,
                   last_writer>>

\* the terminal event the finally block chooses
FinalEvent(cancelled) == IF cancelled THEN Event("cancelled") ELSE Event("completed")

\* finally: the terminal event by the cancel flag
Finally(w) ==
    /\ pc[w] = "finally"
    /\ Deliver(w, <<FinalEvent(_cancel_indexing)>>)
    /\ pc' = [pc EXCEPT ![w] = "done"]
    /\ UNCHANGED <<managers, cp, fs, indexer, stack, readers, nstarts, errs, hist, visible,
                   last_writer>>

\* the rebuild of w has started and its build pass has not yet handled its
\* last entry
Scanning(w) ==
    \/ pc[w] \in {"try", "count", "lock", "clear", "check"}
    \/ pc[w] = "build" /\ stack[w] # <<>>

\* self._cancel_indexing = True; the records note which rebuilds were still
\* scanning (cancelled) and which had started and not ended (asked)
cancel_indexing ==
    /\ ~_cancel_indexing
    /\ _cancel_indexing' = TRUE
    /\ hist' = [w \in Workers |->
                  [hist[w] EXCEPT !.cancelled = @ \/ Scanning(w),
                                  !.asked = @ \/ Active(w)]]
    /\ UNCHANGED <<managers, cp, fs, root_path, file_index, _indexing_stats, _lock,
                   progress_callback, update_callback, pc, stack, calls, readers,
                   nstarts, errs, visible, last_writer>>

set_progress_callback ==
    /\ Configurable
    /\ ~progress_callback
    /\ progress_callback' = TRUE
    /\ UNCHANGED <<managers, cp, fs, root_path, file_index, _cancel_indexing, _indexing_stats, _lock,
                   update_callback, pc, stack, calls, readers, nstarts, errs, hist,
                   visible, last_writer>>

set_update_callback ==
    /\ Configurable
    /\ ~update_callback
    /\ update_callback' = TRUE
    /\ UNCHANGED <<managers, cp, fs, root_path, file_index, _cancel_indexing, _indexing_stats, _lock,
                   progress_callback, pc, stack, calls, readers, nstarts, errs, hist,
                   visible, last_writer>>

(***************************************************************************)
(* The readers                                                             *)
(***************************************************************************)
RebuildHoldsLock == _lock \in Workers

\* get_indexed_files_count, called from any thread: no lock is taken
ReadCount ==
    /\ rd' = [op |-> "count", count |-> get_indexed_files_count(file_index),
              files |-> <<>>]
    /\ UNCHANGED <<managers, cp, fs, indexer, pc, stack, calls, spc, sarg, sres, nstarts, errs,
                   hist, visible, last_writer>>

\* get_all_files, called from any thread: no lock is taken
ReadAll ==
    /\ rd' = [op |-> "files", count |-> 0, files |-> get_all_files(file_index)]
    /\ UNCHANGED <<managers, cp, fs, indexer, pc, stack, calls, spc, sarg, sres, nstarts, errs,
                   hist, visible, last_writer>>

\* search_files(query, limit) up to the with statement
SearchCall(query, limit) ==
    /\ spc = "idle"
    /\ sarg' = [query |-> query, limit |-> limit]
    /\ IF SearchEarlyReturn(file_index, query)
       THEN /\ sres' = Returned(<<>>)
            /\ spc' = "done"
       ELSE /\ spc' = "wait"
            /\ UNCHANGED sres
    /\ UNCHANGED <<managers, cp, fs, indexer, pc, stack, calls, rd, nstarts, errs, hist, visible,
                   last_writer>>

\* the with block of search_files: the lock is taken, the index is searched
\* and the lock is released (also when re.compile raises)
SearchRun ==
    /\ spc = "wait"
    /\ _lock = "none"
    /\ \E ord \in SetOrders(file_index) :
          sres' = SearchLocked(file_index, ord, sarg.query, sarg.limit)
    /\ spc' = "done"
    /\ UNCHANGED <<managers, cp, fs, indexer, pc, stack, calls, sarg, rd, nstarts, errs, hist,
                   visible, last_writer>>

\* the caller has taken the list search_files returned (or the exception)
SearchReturn ==
    /\ spc = "done"
    /\ spc' = "idle"
    /\ sarg' = [query |-> <<>>, limit |-> 0]
    /\ sres' = Returned(<<>>)
    /\ UNCHANGED <<managers, cp, fs, indexer, pc, stack, calls, rd, nstarts, errs, hist, visible,
                   last_writer>>

(***************************************************************************)
(* The indexer with its callers                                            *)
(***************************************************************************)
\* the queries the search_files caller makes while rebuilds run
SpecQueries == {<<"a", ".", "p", "y">>, <<"@", "b">>}

Rebuild(w) ==
    \/ refresh_index(w)
    \/ \E path \in RootChoices : set_root_path(w, path)
    \/ RefreshTry(w)
    \/ CountStep(w)
    \/ AcquireLock(w)
    \/ ClearIndex(w)
    \/ BuildCheck(w)
    \/ BuildStep(w)
    \/ BuildDone(w)
    \/ AfterBuild(w)
    \/ Except(w)
    \/ Finally(w)

\* what the GUI and its threads do to the indexer, apart from reading it
Indexing ==
    \/ \E w \in Workers : Rebuild(w)
    \/ cancel_indexing
    \/ set_progress_callback
    \/ set_update_callback

Next == Indexing

Spec == Init /\ [][Next]_vars

\* rebuilds with threads that call the unlocked readers
NextRead ==
    \/ Indexing
    \/ ReadCount
    \/ ReadAll

ReadSpec == Init /\ [][NextRead]_vars

\* rebuilds with a thread that calls search_files
NextQuery ==
    \/ Indexing
    \/ \E q \in SpecQueries : SearchCall(q, MaxLimit)
    \/ SearchRun
    \/ SearchReturn

QuerySpec == Init /\ [][NextQuery]_vars

(***************************************************************************)
(* search_files on its own: the indexer has indexed one of a family of     *)
(* trees and answers queries drawn from a small alphabet.                  *)
(***************************************************************************)
\* files of one tree
MaxFiles == 2

\* tokens of one query
MaxQueryLen == 2

\* the files a search tree is made of: in the root or in its directory c
SearchUniverse ==
    {<<"root", <<"a">>>>, <<"root", <<"a", ".", "c">>>>, <<"root", <<"@", "a">>>>, <<"root", <<"A">>>>,
     <<"c", <<"a">>>>, <<"c", <<"a", ".", "c">>>>}

RootNames == <<<<"a">>, <<"c">>, <<"a", ".", "c">>, <<"@", "a">>, <<"A">>>>

SubNames == <<<<"a">>, <<"a", ".", "c">>>>

Reverse(s) == [i \in 1..Len(s) |-> s[Len(s) + 1 - i]]

RECURSIVE Listing(_, _, _)
\* the entries for the names of a directory that the file set F holds
Listing(names, where, F) ==
    IF names = <<>> THEN <<>>
    ELSE LET n == Head(names)
             e == IF <<where, n>> \in F THEN <<File(n)>>
                  ELSE IF where = "root" /\ n = <<"c">> /\ \E x \in F : x[1] = "c"
                  THEN <<Dir(n)>> ELSE <<>>
         IN  e \o Listing(Tail(names), where, F)

\* the tree holding the files F, enumerated in the given or the reverse order
TreeOf(F, rev) ==
    LET root == Listing(RootNames, "root", F)
        sub  == Listing(SubNames, "c", F)
    IN  (RootP :> IF rev THEN Reverse(root) ELSE root)
        @@ (IF sub = <<>> THEN [d \in {} |-> <<>>]
            ELSE (RootP \o <<<<"c">>>> :> IF rev THEN Reverse(sub) ELSE sub))

SearchTrees ==
    {TreeOf(F, rev) : F \in {G \in SUBSET SearchUniverse : Cardinality(G) <= MaxFiles},
                      rev \in BOOLEAN}

QueryAlphabet == {"a", "A", "c", ".", "/", "*", "(", BigRepeat, "@", " "}

Queries == UNION {[1..n -> QueryAlphabet] : n \in 0..MaxQueryLen}

\* set_root_path(RootP) has returned on a new FileIndexer
InitSearch ==
    /\ fs \in SearchTrees
    /\ root_path = RootP
    /\ file_index = ScanAll(fs, RootP)
    /\ visible = file_index
    /\ _cancel_indexing = FALSE
    /\ _indexing_stats =
          [ZeroStats EXCEPT !.files_processed = get_indexed_files_count(file_index),
                            !.current_dir = IF RootP \o <<<<"c">>>> \in DOMAIN fs
                                            THEN <<"c">> ELSE <<".">>]
    /\ _lock = "none"
    /\ progress_callback = FALSE
    /\ update_callback = FALSE
    /\ pc = [w \in Workers |-> IF w = FirstWorker THEN "done" ELSE "idle"]
    /\ stack = [w \in Workers |-> <<>>]
    /\ calls = [w \in Workers |-> <<>>]
    /\ spc = "idle"
    /\ sarg = [query |-> <<>>, limit |-> 0]
    /\ sres = Returned(<<>>)
    /\ rd = NoRead
    /\ nstarts = 1
    /\ errs = 0
    /\ hist = [w \in Workers |->
                 IF w = FirstWorker THEN [NoHist EXCEPT !.rebuild = TRUE, !.root = RootP]
                 ELSE NoHist]
    /\ last_writer = FirstWorker
    /\ cp = NoText
    /\ ManagersIdle

NextSearch ==
    \/ spc = "idle" /\ \E q \in Queries, limit \in 0..MaxLimit : SearchCall(q, limit)
    \/ SearchRun
    \/ SearchReturn

SearchSpec == InitSearch /\ [][NextSearch]_vars

(***************************************************************************)
(* Properties                                                              *)
(***************************************************************************)
Range(s) == {s[i] : i \in 1..Len(s)}

\* the lists search_files can return on an index, over the orders in which
\* its sets can be enumerated
PossibleResults(idx, query, limit) ==
    {search_files(idx, ord, query, limit) : ord \in SetOrders(idx)}

\* the index a complete scan of the current root yields
CompleteIndex == ScanAll(fs, root_path)

RECURSIVE EligibleUnder(_, _, _)
\* the relative paths of the files under dir that the filters let through
EligibleUnder(tree, root, dir) ==
    IF Scandir(tree, dir) # "ok" THEN {}
    ELSE {RelPath(dir \o <<e.name>>, root) : e \in {x \in Range(tree[dir]) : IsEligible(x)}}
         \cup UNION {EligibleUnder(tree, root, dir \o <<e.name>>) :
                        e \in {x \in Range(tree[dir]) : IsDescended(x)}}

EligibleFiles(tree, root) == EligibleUnder(tree, root, root)

Terminals(w) == SelectSeq(calls[w], LAMBDA e : e.t \in TerminalTypes)

\* w's rebuild has ended and no other rebuild ran while it did
EndedAlone(w) == pc[w] = "done" /\ hist[w].rebuild /\ hist[w].alone

\* C1: a search_files call whose result is determined while a rebuild holds
\* the lock returns what it would return on the index as it stood before that
\* rebuild or on the complete index of the root.
OrigC1 ==
    [][(spc' = "done" /\ spc # "done" /\ RebuildHoldsLock)
       => sres' \in PossibleResults(visible, sarg'.query, sarg'.limit)
                    \cup PossibleResults(CompleteIndex, sarg'.query, sarg'.limit)]_vars

\* C2: when a rebuild during whose scan cancel_indexing was called has ended,
\* the index is the one that was visible before the rebuild started.
OrigC2 ==
    \A w \in Workers : (EndedAlone(w) /\ hist[w].cancelled) => file_index = hist[w].pre

\* C3: a rebuild started with a progress callback set delivers exactly one
\* terminal event, and it is the last call it makes to the progress callback.
OrigC3 ==
    \A w \in Workers :
       (pc[w] = "done" /\ hist[w].rebuild /\ hist[w].cb)
       => /\ Len(Terminals(w)) = 1
          /\ \A i \in 1..Len(calls[w]) :
                calls[w][i].t \in TerminalTypes =>
                   \A j \in (i + 1)..Len(calls[w]) : calls[w][j].t # "progress"

\* C4: a rebuild that raised an error has reported it by one `error` event
\* and has left the index as it was before the rebuild started.
OrigC4 ==
    \A w \in Workers :
       (EndedAlone(w) /\ hist[w].error)
       => /\ hist[w].cb =>
                Cardinality({i \in 1..Len(calls[w]) : calls[w][i].t = "error"}) = 1
          /\ file_index = hist[w].pre

\* C5: get_indexed_files_count and get_all_files return the count / list of
\* the index as it stood before the running rebuild or of the complete index.
OrigC5 ==
    [][rd' # rd
       => /\ rd'.op = "count" =>
                rd'.count \in {get_indexed_files_count(visible),
                               get_indexed_files_count(CompleteIndex)}
          /\ rd'.op = "files" =>
                rd'.files \in {get_all_files(visible), get_all_files(CompleteIndex)}]_vars

\* w's rebuild ran its scan to the end undisturbed, and the index has not
\* been cleared by a later rebuild
CompletedBuild(w) ==
    /\ pc[w] = "done"
    /\ hist[w].rebuild
    /\ ~hist[w].cancelled
    /\ ~hist[w].error
    /\ last_writer = w

\* C6: after a rebuild that ended without cancellation or error, the indexed
\* paths are exactly the eligible files under its root, and
\* get_indexed_files_count is their number.
ThmC6 ==
    \A w \in Workers :
       CompletedBuild(w)
       => /\ IndexedPaths(file_index) = EligibleFiles(fs, hist[w].root)
          /\ get_indexed_files_count(file_index)
                = Cardinality(EligibleFiles(fs, hist[w].root))

\* a rebuild has completed on a root other than the one indexed before it
WitC6 ==
    \E w \in Workers :
       /\ CompletedBuild(w)
       /\ IndexedPaths(hist[w].pre) # {}
       /\ IndexedPaths(hist[w].pre) \cap IndexedPaths(file_index) = {}
       /\ IndexedPaths(file_index) # {}

\* os.path.basename of a relative path
Basename(path) ==
    LET slashes == {i \in 1..Len(path) : path[i] = "/"}
    IN  IF slashes = {} THEN path
        ELSE Drop(path, CHOOSE i \in slashes : \A j \in slashes : j <= i)

Distinct(s) == \A i, j \in 1..Len(s) : i # j => s[i] # s[j]

\* a search_files call has returned a list
SearchReturned == spc = "done" /\ ~sres.raised

\* C7: search_files(q, N) returns at most N paths, pairwise distinct.
ThmC7 ==
    SearchReturned => Len(sres.paths) <= sarg.limit /\ Distinct(sres.paths)

\* N paths are returned though more paths match, some under two keys
WitC7 ==
    /\ SearchReturned
    /\ sarg.limit = MaxLimit
    /\ Len(sres.paths) = MaxLimit
    /\ \E ord \in SetOrders(file_index) :
          LET q == CleanQuery(sarg.query)
              T(tier) == TierMatches(file_index.order, ord, q, ReCompile(q) = "ok", tier)
              all == T("exact") \o T("prefix") \o T("contains") \o T("regex")
          IN  Len(all) > MaxLimit /\ ~Distinct(all)

\* the indexed files named as the query is
NamedAsQuery == {f \in IndexedPaths(file_index) : Basename(f) = sarg.query}

\* C8 as stated: search_files(basename(f), limit >= 1) returns f first.
OrigC8 ==
    (SearchReturned /\ sarg.limit >= 1)
    => \A f \in NamedAsQuery : sres.paths # <<>> /\ sres.paths[1] = f

\* the query is unchanged by the cleaning under the lock
CleanName(name) == CleanQuery(name) = name

\* C8 as amended: when search_files(basename(f), limit >= 1) returns, for a
\* name that the cleaning of the query leaves as it is, the first path
\* returned is that of an indexed file with that name up to case; it is f if
\* no other indexed file has that name up to case.
ThmC8 ==
    (SearchReturned /\ sarg.limit >= 1 /\ CleanName(sarg.query) /\ NamedAsQuery # {})
    => /\ sres.paths # <<>>
       /\ Lower(Basename(sres.paths[1])) = Lower(sarg.query)
       /\ \A f \in NamedAsQuery :
             (\A h \in IndexedPaths(file_index) :
                 Lower(Basename(h)) = Lower(sarg.query) => h = f)
             => sres.paths[1] = f

\* the query names one indexed file, other files match it in later tiers,
\* and the named file comes first
WitC8 ==
    /\ SearchReturned
    /\ sarg.limit >= 1
    /\ CleanName(sarg.query)
    /\ \E f \in NamedAsQuery :
          /\ \A h \in IndexedPaths(file_index) :
                Lower(Basename(h)) = Lower(sarg.query) => h = f
          /\ sres.paths[1] = f
          /\ \E k \in DOMAIN file_index.map :
                /\ f \notin file_index.map[k]
                /\ TierOf(k, sarg.query, FALSE) \in {"prefix", "contains"}
                /\ Head(file_index.order) = k

TierRank == [exact |-> 1, prefix |-> 2, contains |-> 3, regex |-> 4, none |-> 5]

\* the best tier in which a key of the path matches the query
BestRank(path) ==
    LET q == CleanQuery(sarg.query)
        ranks == {TierRank[TierOf(k, q, ReCompile(q) = "ok")] :
                     k \in {x \in DOMAIN file_index.map : path \in file_index.map[x]}}
    IN  CHOOSE r \in ranks : \A o \in ranks : r <= o

\* C9: in the list returned, a path with an exact key match precedes every
\* path whose best match is a prefix match, which precedes every path whose
\* best match is a substring match, which precedes every path matched by the
\* regular expression only.
ThmC9 ==
    SearchReturned
    => \A i, j \in 1..Len(sres.paths) :
          i < j => BestRank(sres.paths[i]) <= BestRank(sres.paths[j])

\* a path of the regex tier is returned after a path of a better tier
WitC9 ==
    /\ SearchReturned
    /\ Len(sres.paths) >= 2
    /\ BestRank(sres.paths[1]) < 4
    /\ BestRank(sres.paths[Len(sres.paths)]) = 4

\* C10: search_files never raises; with a query that is not a valid regular
\* expression no path is returned for a regex match; an empty query, a query
\* empty after cleaning and an empty index give the empty list.
OrigC10 ==
    spc = "done"
    => /\ ~sres.raised
       /\ ReCompile(CleanQuery(sarg.query)) # "ok" =>
             \A i \in 1..Len(sres.paths) : BestRank(sres.paths[i]) <= 3
       /\ (CleanQuery(sarg.query) = <<>> \/ file_index = EmptyIndex) => sres.paths = <<>>

(***************************************************************************)
(* ContentProcessor: text as the sequence of its characters                *)
(***************************************************************************)
Digits == <<"0", "1", "2", "3", "4", "5", "6", "7", "8", "9">>

\* [a-zA-Z0-9]
IsAlnum(c) == c \in Range(UpperChars) \cup Range(LowerChars) \cup Range(Digits)

\* \w
IsWord(c) == IsAlnum(c) \/ c = "_"

\* [^\s@]
IsPathChar(c) == c \notin Whitespace /\ c # "@"

\* [^\s@/]
IsNameChar(c) == IsPathChar(c) /\ c # "/"

\* p occurs in s at position i
OccursAt(s, p, i) == i >= 1 /\ i + Len(p) - 1 <= Len(s) /\ SubSeq(s, i, i + Len(p) - 1) = p

\* s.find(p, i - 1) + 1: the first position from i on where p occurs, or 0
Find(s, p, i) ==
    LET at == {k \in i..(Len(s) - Len(p) + 1) : OccursAt(s, p, k)}
    IN  IF at = {} THEN 0 ELSE CHOOSE k \in at : \A o \in at : k <= o

RECURSIVE ReplaceFrom(_, _, _, _)
ReplaceFrom(s, old, new, i) ==
    LET k == Find(s, old, i)
    IN  IF k = 0 THEN SubSeq(s, i, Len(s))
        ELSE SubSeq(s, i, k - 1) \o new \o ReplaceFrom(s, old, new, k + Len(old))

\* s.replace(old, new), old not empty
Replace(s, old, new) == ReplaceFrom(s, old, new, 1)

\* the last position of the run of [a-zA-Z0-9] that starts at i (i - 1: none)
AlnumRunEnd(s, i) ==
    CHOOSE j \in (i - 1)..Len(s) :
        /\ \A k \in i..j : IsAlnum(s[k])
        /\ j = Len(s) \/ ~IsAlnum(s[j + 1])

\* the last position of the run of \w that starts at i (i - 1: none)
WordRunEnd(s, i) ==
    CHOOSE j \in (i - 1)..Len(s) :
        /\ \A k \in i..j : IsWord(s[k])
        /\ j = Len(s) \/ ~IsWord(s[j + 1])

\* ---- file_pattern = (?:[^\s@]+/)*[^\s@/]+\.[a-zA-Z0-9]+ ----
\* [^\s@/]+\.[a-zA-Z0-9]+ matched from t: the "." taken is the last one the
\* greedy [^\s@/]+ can give back that an alphanumeric follows; 0: no match
NameMatchEnd(s, t) ==
    LET dots == {d \in (t + 1)..(Len(s) - 1) :
                    /\ \A k \in t..d : IsNameChar(s[k])
                    /\ s[d] = "."
                    /\ IsAlnum(s[d + 1])}
    IN  IF dots = {} THEN 0
        ELSE AlnumRunEnd(s, (CHOOSE d \in dots : \A o \in dots : o <= d) + 1)

\* file_pattern matched at i: the group (?:[^\s@]+/)* takes a prefix that
\* ends with "/", the longest first; the position of the last character
\* matched, or 0
RefMatchEnd(s, i) ==
    LET starts == {t \in i..Len(s) :
                      /\ NameMatchEnd(s, t) # 0
                      /\ t = i \/ (/\ t >= i + 2
                                   /\ s[t - 1] = "/"
                                   /\ \A k \in i..(t - 1) : IsPathChar(s[k]))}
    IN  IF starts = {} THEN 0
        ELSE NameMatchEnd(s, CHOOSE t \in starts : \A o \in starts : o <= t)

RECURSIVE FindAllRefs(_, _)
\* re.findall(file_pattern, text) from position i on
FindAllRefs(s, i) ==
    IF i > Len(s) THEN <<>>
    ELSE LET e == RefMatchEnd(s, i)
         IN  IF e = 0 THEN FindAllRefs(s, i + 1)
             ELSE <<SubSeq(s, i, e)>> \o FindAllRefs(s, e + 1)

\* ---- the pattern of extract_file_paths_from_rendered: a fence, a run of
\* ---- word characters, a newline, "# ", a line that is not empty, a newline,
\* ---- and the shortest text up to a fence
\* the backquote character
Tick == "backquote"

Fence == <<Tick, Tick, Tick>>

NL == "\n"

NoBlock == [found |-> FALSE, language |-> <<>>, file_path |-> <<>>, content |-> <<>>,
            first |-> 0, body |-> 0, last |-> 0]

\* the pattern matched at i: its three groups, where the third starts and
\* where the match ends
BlockAt(s, i) ==
    IF ~OccursAt(s, Fence, i) THEN NoBlock
    ELSE LET l == WordRunEnd(s, i + 3)
             h == Find(s, <<NL>>, l + 4)
         IN  IF ~OccursAt(s, <<NL, "#", " ">>, l + 1) \/ h = 0 \/ h = l + 4 THEN NoBlock
             ELSE LET c == Find(s, Fence, h + 1)
                  IN  IF c = 0 THEN NoBlock
                      ELSE [found |-> TRUE,
                            language |-> SubSeq(s, i + 3, l),
                            file_path |-> SubSeq(s, l + 4, h - 1),
                            content |-> SubSeq(s, h + 1, c - 1),
                            first |-> i,
                            body |-> h + 1,
                            last |-> c + 2]

RECURSIVE FindAllBlocks(_, _)
\* the matches of the pattern in s from i on
FindAllBlocks(s, i) ==
    IF i > Len(s) THEN <<>>
    ELSE LET b == BlockAt(s, i)
         IN  IF ~b.found THEN FindAllBlocks(s, i + 1)
             ELSE <<b>> \o FindAllBlocks(s, b.last + 1)

(***************************************************************************)
(* The files of the project and what FileIndexer tells about them          *)
(***************************************************************************)
None == [some |-> FALSE, text |-> <<>>]

Some(t) == [some |-> TRUE, text |-> t]

\* the files under the root and their contents: a file, a file of unknown
\* extension that names the first, an empty file and a file in a directory
ProjectFiles ==
    (<<"a", ".", "c">> :> <<"x">>) @@ (<<"b", ".", "q">> :> <<"a", ".", "c">>) @@ (<<"e", ".", "c">> :> <<>>) @@ (<<"d", "/", "a", ".", "c">> :> <<"y">>)

\* get_file_content(file_path): the relative paths of the texts in use spell
\* no ".", ".." or empty component, so the path exists as a file exactly
\* when it is the path of one of the files
get_file_content(root, files, file_path) ==
    IF root = NoRoot THEN None
    ELSE IF file_path \in DOMAIN files THEN Some(files[file_path])
    ELSE None

language_map ==
    (<<".", "p", "y">> :> <<"p", "y", "t", "h", "o", "n">>) @@ (<<".", "j", "s">> :> <<"j", "a", "v", "a", "s", "c", "r", "i", "p", "t">>) @@ (<<".", "t", "s">> :> <<"t", "y", "p", "e", "s", "c", "r", "i", "p", "t">>)
 @@ (<<".", "j", "s", "x">> :> <<"j", "s", "x">>) @@ (<<".", "t", "s", "x">> :> <<"t", "s", "x">>) @@ (<<".", "j", "a", "v", "a">> :> <<"j", "a", "v", "a">>)
 @@ (<<".", "c", "p", "p">> :> <<"c", "p", "p">>) @@ (<<".", "c">> :> <<"c">>) @@ (<<".", "h">> :> <<"c">>) @@ (<<".", "c", "s">> :> <<"c", "s", "h", "a", "r", "p">>)
 @@ (<<".", "p", "h", "p">> :> <<"p", "h", "p">>) @@ (<<".", "r", "b">> :> <<"r", "u", "b", "y">>) @@ (<<".", "g", "o">> :> <<"g", "o">>) @@ (<<".", "r", "s">> :> <<"r", "u", "s", "t">>)
 @@ (<<".", "s", "w", "i", "f", "t">> :> <<"s", "w", "i", "f", "t">>) @@ (<<".", "k", "t">> :> <<"k", "o", "t", "l", "i", "n">>) @@ (<<".", "s", "c", "a", "l", "a">> :> <<"s", "c", "a", "l", "a">>)
 @@ (<<".", "h", "t", "m", "l">> :> <<"h", "t", "m", "l">>) @@ (<<".", "c", "s", "s">> :> <<"c", "s", "s">>) @@ (<<".", "s", "c", "s", "s">> :> <<"s", "c", "s", "s">>)
 @@ (<<".", "l", "e", "s", "s">> :> <<"l", "e", "s", "s">>) @@ (<<".", "x", "m", "l">> :> <<"x", "m", "l">>) @@ (<<".", "j", "s", "o", "n">> :> <<"j", "s", "o", "n">>)
 @@ (<<".", "y", "a", "m", "l">> :> <<"y", "a", "m", "l">>) @@ (<<".", "y", "m", "l">> :> <<"y", "a", "m", "l">>) @@ (<<".", "m", "d">> :> <<"m", "a", "r", "k", "d", "o", "w", "n">>)
 @@ (<<".", "s", "q", "l">> :> <<"s", "q", "l">>) @@ (<<".", "s", "h">> :> <<"b", "a", "s", "h">>) @@ (<<".", "b", "a", "t">> :> <<"b", "a", "t", "c", "h">>)
 @@ (<<".", "p", "s", "1">> :> <<"p", "o", "w", "e", "r", "s", "h", "e", "l", "l">>) @@ (<<".", "r">> :> <<"r">>) @@ (<<".", "m">> :> <<"m", "a", "t", "l", "a", "b">>)

\* os.path.splitext(path)[1]: the extension of the last component
PathExt(path) ==
    LET slashes == {i \in 1..Len(path) : path[i] = "/"}
    IN  SplitExt(IF slashes = {} THEN path
                 ELSE Drop(path, CHOOSE i \in slashes : \A j \in slashes : j <= i))

\* language_map.get(ext, 'text')
get_file_language(file_path) ==
    LET ext == Lower(PathExt(file_path))
    IN  IF ext \in DOMAIN language_map THEN language_map[ext] ELSE <<"t", "e", "x", "t">>

(***************************************************************************)
(* ContentProcessor                                                        *)
(***************************************************************************)
\* the matches of file_pattern that get_file_content finds
extract_file_references(root, files, text) ==
    SelectSeq(FindAllRefs(text, 1), LAMBDA m : get_file_content(root, files, m).some)

\* f"```{language}\n# {file_path}\n{content}\n```"
CodeBlock(language, file_path, content) ==
    Fence \o language \o <<NL, "#", " ">> \o file_path \o <<NL>> \o content \o <<NL>> \o Fence

\* the code block put for a reference: from the edit of the path if the
\* edits hold one, from the file otherwise
BlockFor(root, files, edits, file_path) ==
    IF file_path \in DOMAIN edits
    THEN CodeBlock(edits[file_path].language, file_path, edits[file_path].content)
    ELSE CodeBlock(get_file_language(file_path), file_path,
                   get_file_content(root, files, file_path).text)

\* one iteration of the loop of process_content_for_copy
Substitute(root, files, edits, text, file_path) ==
    IF file_path \in DOMAIN edits \/ get_file_content(root, files, file_path).some
    THEN Replace(text, file_path, BlockFor(root, files, edits, file_path))
    ELSE text

RECURSIVE SubstituteAll(_, _, _, _, _)
SubstituteAll(root, files, edits, text, refs) ==
    IF refs = <<>> THEN text
    ELSE SubstituteAll(root, files, edits,
                       Substitute(root, files, edits, text, Head(refs)), Tail(refs))

process_content_for_copy(root, files, text, edits) ==
    IF root = NoRoot THEN text
    ELSE SubstituteAll(root, files, edits, text,
                       extract_file_references(root, files, text))

\* the (file_path, language, content) tuples, each part stripped
extract_file_paths_from_rendered(rendered_text) ==
    LET blocks == FindAllBlocks(rendered_text, 1)
    IN  [i \in 1..Len(blocks) |->
            [file_path |-> Strip(blocks[i].file_path),
             language  |-> Strip(blocks[i].language),
             content   |-> Strip(blocks[i].content)]]

\* the replacement templates of re: the characters "\a" ... "\v" stand for
ControlOf == [a |-> "BEL", b |-> "BS", f |-> "\f", n |-> "\n", r |-> "\r",
              t |-> "\t", v |-> "VT"]

RECURSIVE ExpandTemplate(_)
\* the text a replacement template stands for, when no group of the match
\* is referred to: a backslash before a letter that is no escape, before a
\* digit (a group the pattern does not have) or at the end is an error
ExpandTemplate(t) ==
    IF t = <<>> THEN Some(<<>>)
    ELSE IF Head(t) # "\\"
    THEN LET rest == ExpandTemplate(Tail(t))
         IN  IF rest.some THEN Some(<<Head(t)>> \o rest.text) ELSE None
    ELSE IF Len(t) = 1 THEN None
    ELSE LET c    == t[2]
             rest == ExpandTemplate(Drop(t, 2))
         IN  IF ~rest.some THEN None
             ELSE IF c = "\\" THEN Some(<<"\\">> \o rest.text)
             ELSE IF c \in DOMAIN ControlOf THEN Some(<<ControlOf[c]>> \o rest.text)
             ELSE IF IsAlnum(c) THEN None
             ELSE Some(<<"\\", c>> \o rest.text)

RECURSIVE SubFrom(_, _, _, _)
\* code_block_pattern.sub from position i on: the pattern is the literal
\* opening of the block, the shortest text, and a fence
SubFrom(s, opening, repl, i) ==
    LET k == Find(s, opening, i)
        c == IF k = 0 THEN 0 ELSE Find(s, Fence, k + Len(opening))
    IN  IF c = 0 THEN SubSeq(s, i, Len(s))
        ELSE SubSeq(s, i, k - 1) \o repl \o SubFrom(s, opening, repl, c + 3)

\* the text of a convert_rendered_to_raw call that returned; a call that
\* raised re.error
Converted(text) == [raised |-> FALSE, text |-> text]

ConvertRaised == [raised |-> TRUE, text |-> <<>>]

RECURSIVE CollapseAll(_, _)
\* the loop of convert_rendered_to_raw over file_data
CollapseAll(raw_text, file_data) ==
    IF file_data = <<>> THEN Converted(raw_text)
    ELSE LET d       == Head(file_data)
             opening == Fence \o d.language \o <<NL, "#", " ">> \o d.file_path \o <<NL>>
             repl    == ExpandTemplate(d.file_path)
         IN  IF ~repl.some THEN ConvertRaised
             ELSE CollapseAll(SubFrom(raw_text, opening, repl.text, 1), Tail(file_data))

convert_rendered_to_raw(rendered_text) ==
    IF rendered_text = <<>> THEN Converted(<<>>)
    ELSE CollapseAll(rendered_text, extract_file_paths_from_rendered(rendered_text))

NoEdits == [p \in {} |-> <<>>]

\* edits[file_path] = {...}
SetEdit(edits, file_path, rec) ==
    [p \in DOMAIN edits \cup {file_path} |-> IF p = file_path THEN rec ELSE edits[p]]

RECURSIVE PreserveAll(_, _, _, _)
\* the loop of preserve_code_block_edits over file_data
PreserveAll(root, files, file_data, edits) ==
    IF file_data = <<>> THEN edits
    ELSE LET d == Head(file_data)
             original_content == get_file_content(root, files, d.file_path)
         IN  PreserveAll(root, files, Tail(file_data),
                 IF /\ original_content.some
                    /\ original_content.text # <<>>
                    /\ Strip(d.content) # Strip(original_content.text)
                 THEN SetEdit(edits, d.file_path,
                              [language |-> d.language, content |-> d.content,
                               original_content |-> original_content.text])
                 ELSE edits)

preserve_code_block_edits(root, files, rendered_text) ==
    PreserveAll(root, files, extract_file_paths_from_rendered(rendered_text), NoEdits)

(***************************************************************************)
(* A text rendered, edited and collapsed                                   *)
(***************************************************************************)
\* pieces of raw text put together in one text
MaxPieces == 3

\* what a raw text is put together from: the paths of files, a directory
\* prefix, a blank, a letter, and a token that names no file and ends in the
\* path of one
RawPieces == {<<"a", ".", "c">>, <<"b", ".", "q">>, <<"e", ".", "c">>, <<"d", "/">>, <<" ">>, <<"x">>,
              <<"x", "a", ".", "c">>}

RECURSIVE Flatten(_)
Flatten(ss) == IF ss = <<>> THEN <<>> ELSE Head(ss) \o Flatten(Tail(ss))

\* the texts typed in raw mode
RawTexts == {Flatten(ps) : ps \in UNION {[1..n -> RawPieces] : n \in 0..MaxPieces}}

\* the header lines of the blocks typed in rendered mode: none, or "# "
\* and a path, which may be padded, name no file or hold a backslash
HeaderLines ==
    {<<>>} \cup {<<"#", " ">> \o hp \o <<NL>> : hp \in {<<"a", ".", "c">>, <<"a", ".", "c", " ">>, <<"e", ".", "c">>, <<"q", ".", "c">>, <<"\\">>}}

\* the bodies typed into a block
Bodies == {<<>>, <<"x", NL>>, <<"z", NL>>}

\* the texts typed in rendered mode: one fenced span, well formed or not
RenderedTexts ==
    {pre \o Fence \o lang \o <<NL>> \o hl \o body \o close \o post :
        pre \in {<<>>, <<"x", " ">>}, lang \in {<<>>, <<"c">>}, hl \in HeaderLines,
        body \in Bodies, close \in {<<>>, Fence}, post \in {<<>>, <<" ", "x">>}}

\* the code_block_edits passed to process_content_for_copy
EditChoices == {NoEdits, <<"a", ".", "c">> :> [language |-> <<"c">>, content |-> <<"z">>]}

\* a text is in the editor of a project whose root is set
InitText ==
    /\ fs = MainTree
    /\ root_path = RootP
    /\ file_index = ScanAll(fs, RootP)
    /\ visible = file_index
    /\ _cancel_indexing = FALSE
    /\ _indexing_stats = ZeroStats
    /\ _lock = "none"
    /\ progress_callback = FALSE
    /\ update_callback = FALSE
    /\ pc = [w \in Workers |-> "idle"]
    /\ stack = [w \in Workers |-> <<>>]
    /\ calls = [w \in Workers |-> <<>>]
    /\ spc = "idle"
    /\ sarg = [query |-> <<>>, limit |-> 0]
    /\ sres = Returned(<<>>)
    /\ rd = NoRead
    /\ nstarts = 0
    /\ errs = 0
    /\ hist = [w \in Workers |-> NoHist]
    /\ last_writer = "none"
    /\ ManagersIdle
    /\ \E t \in RawTexts \cup RenderedTexts :
          cp = [NoText EXCEPT !.stage = "raw", !.text = t, !.shown = t]

\* process_content_for_copy(text, edits) puts the rendered text in the editor
RenderText(edits) ==
    /\ cp.stage = "raw"
    /\ LET r == process_content_for_copy(root_path, ProjectFiles, cp.text, edits)
       IN  cp' = [cp EXCEPT !.stage = "rendered", !.edits = edits,
                            !.rendered = r, !.shown = r]
    /\ UNCHANGED <<managers, fs, indexer, pc, stack, calls, readers, nstarts, errs, hist,
                   visible, last_writer>>

\* the user types a new body into the k-th block of the rendered text
EditBody(k, body) ==
    /\ cp.stage = "rendered"
    /\ LET blocks == FindAllBlocks(cp.shown, 1) IN
       /\ k \in 1..Len(blocks)
       /\ body # blocks[k].content
       /\ cp' = [cp EXCEPT !.stage = "edited",
                           !.path = Strip(blocks[k].file_path),
                           !.old = blocks[k].content,
                           !.body = body,
                           !.shown = SubSeq(cp.shown, 1, blocks[k].body - 1) \o body
                                     \o SubSeq(cp.shown, blocks[k].last - 2, Len(cp.shown))]
    /\ UNCHANGED <<managers, fs, indexer, pc, stack, calls, readers, nstarts, errs, hist,
                   visible, last_writer>>

\* preserve_code_block_edits and convert_rendered_to_raw on the text shown
UnrenderText ==
    /\ cp.stage \in {"raw", "rendered", "edited"}
    /\ LET c == convert_rendered_to_raw(cp.shown)
       IN  cp' = [cp EXCEPT !.stage = "collapsed", !.from = cp.stage,
                            !.raised = c.raised, !.raw = c.text,
                            !.found = preserve_code_block_edits(root_path, ProjectFiles,
                                                                cp.shown)]
    /\ UNCHANGED <<managers, fs, indexer, pc, stack, calls, readers, nstarts, errs, hist,
                   visible, last_writer>>

NextText ==
    \/ \E e \in EditChoices : RenderText(e)
    \/ \E k \in 1..Len(FindAllBlocks(cp.shown, 1)), body \in Bodies : EditBody(k, body)
    \/ UnrenderText

TextSpec == InitText /\ [][NextText]_vars

(***************************************************************************)
(* Properties of the ContentProcessor                                      *)
(***************************************************************************)
\* the references of the text rendered
Refs == extract_file_references(root_path, ProjectFiles, cp.text)

\* the positions of the text at which a referenced path is written
RefPlaces == {i \in 1..Len(cp.text) : \E p \in Range(Refs) : OccursAt(cp.text, p, i)}

FirstPlace == CHOOSE i \in RefPlaces : \A o \in RefPlaces : i <= o

\* the longest referenced path written at position i
PathAt(i) ==
    LET here == {p \in Range(Refs) : OccursAt(cp.text, p, i)}
    IN  CHOOSE p \in here : \A o \in here : Len(o) <= Len(p)

\* the text in which every reference token names a file, no reference token
\* is found in another, no file holds a fence and no fence is written
RoundTripInput(t) ==
    LET m == FindAllRefs(t, 1)
    IN  /\ \A i \in 1..Len(m) : m[i] \in DOMAIN ProjectFiles
        /\ \A i, j \in 1..Len(m) : i # j => ~Contains(m[i], m[j])
        /\ \A f \in DOMAIN ProjectFiles : ~Contains(ProjectFiles[f], Fence)
        /\ ~Contains(t, Fence)

\* C11 as stated: a text of this kind, rendered with no edits and collapsed,
\* is the text again.
OrigC11 ==
    (/\ cp.stage = "collapsed"
     /\ cp.from = "rendered"
     /\ cp.edits = NoEdits
     /\ RoundTripInput(cp.text))
    => ~cp.raised /\ cp.raw = cp.text

RECURSIVE OnePass(_)
\* the text from position i on with each referenced path written in it
\* replaced once by the block of the path
OnePass(i) ==
    IF i > Len(cp.text) THEN <<>>
    ELSE IF i \in RefPlaces
    THEN BlockFor(root_path, ProjectFiles, cp.edits, PathAt(i)) \o OnePass(i + Len(PathAt(i)))
    ELSE <<cp.text[i]>> \o OnePass(i + 1)

\* C12 as stated: the rendered text is the text with every occurrence of a
\* referenced path replaced by the block of the path, and nothing that a
\* replacement wrote replaced again.
OrigC12 == cp.stage = "rendered" => cp.shown = OnePass(1)

\* C13 as stated: where the first referenced path p of the text stood, the
\* text rendered with no edits holds the fence tagged get_file_language(p),
\* the line "# p", the content of the file and the closing fence.
OrigC13 ==
    (cp.stage = "rendered" /\ cp.edits = NoEdits /\ RefPlaces # {})
    => OccursAt(cp.shown,
                CodeBlock(get_file_language(PathAt(FirstPlace)), PathAt(FirstPlace),
                          ProjectFiles[PathAt(FirstPlace)]),
                FirstPlace)

\* C14 as stated: the body of the block rendered for the first referenced
\* path is the content of its entry in the edits when it has one, and the
\* content of the file when it has none.
OrigC14 ==
    (cp.stage = "rendered" /\ RefPlaces # {})
    => LET b == BlockAt(cp.shown, FirstPlace)
           p == PathAt(FirstPlace)
       IN  /\ b.found
           /\ b.content = (IF p \in DOMAIN cp.edits THEN cp.edits[p].content
                           ELSE ProjectFiles[p]) \o <<NL>>

\* the blocks recognised in the text shown before it was collapsed
Recognised == extract_file_paths_from_rendered(cp.shown)

\* C15 as stated: an edit is recorded for a file exactly when a recognised
\* block of its path has a body that differs, trimmed, from the trimmed
\* content of the file, empty or not; freshly rendered text gives no edit.
OrigC15 ==
    cp.stage = "collapsed"
    => /\ \A p \in DOMAIN ProjectFiles :
             p \in DOMAIN cp.found
             <=> \E i \in 1..Len(Recognised) :
                    /\ Recognised[i].file_path = p
                    /\ Strip(Recognised[i].content) # Strip(ProjectFiles[p])
       /\ cp.from = "rendered" => cp.found = NoEdits

\* C16 as stated: after the body of one block of a text rendered with no
\* edits is changed, there is one edit record, for the path of the block,
\* with the content of the file as original and the new body as content, and
\* the collapsed text is that of the rendered text left as it was.
OrigC16 ==
    (/\ cp.stage = "collapsed"
     /\ cp.from = "edited"
     /\ cp.edits = NoEdits
     /\ cp.path \in DOMAIN ProjectFiles
     /\ Strip(cp.body) # Strip(cp.old))
    => /\ DOMAIN cp.found = {cp.path}
       /\ cp.found[cp.path].original_content = ProjectFiles[cp.path]
       /\ Strip(cp.found[cp.path].content) = Strip(cp.body)
       /\ ~cp.raised
       /\ cp.raw = convert_rendered_to_raw(cp.rendered).text

RECURSIVE CollapseSpans(_, _)
\* s from position i on with the span of every recognised block replaced by
\* the path of the block
CollapseSpans(s, i) ==
    IF i > Len(s) THEN <<>>
    ELSE LET b == BlockAt(s, i)
         IN  IF b.found THEN Strip(b.file_path) \o CollapseSpans(s, b.last + 1)
             ELSE <<s[i]>> \o CollapseSpans(s, i + 1)

\* C17 as stated: convert_rendered_to_raw returns the text with the span of
\* each recognised block replaced by its path and every other character
\* kept, and does not raise.
OrigC17 == cp.stage = "collapsed" => ~cp.raised /\ cp.raw = CollapseSpans(cp.shown, 1)

(***************************************************************************)
(* The shape of the index between rebuilds                                 *)
(***************************************************************************)
\* every key maps to a non-empty set, and every path of the index is found
\* under its bare filename and under itself
WellKeyed(idx) ==
    /\ \A k \in DOMAIN idx.map : idx.map[k] # {}
    /\ \A p \in IndexedPaths(idx) :
          /\ Basename(p) \in DOMAIN idx.map
          /\ p \in idx.map[Basename(p)]
          /\ p \in DOMAIN idx.map
          /\ p \in idx.map[p]

\* C20: whenever no rebuild holds the index lock, every key of the index maps
\* to a non-empty set, and for every path p in any of these sets the bare
\* filename of p and p itself are keys whose sets contain p.
ThmC20 == _lock = "none" => WellKeyed(file_index)

\* the lock is free after a rebuild that was cancelled or raised, and it has
\* left a file of a subdirectory in the index
WitC20 ==
    /\ _lock = "none"
    /\ \E w \in Workers :
          /\ pc[w] = "done"
          /\ hist[w].rebuild
          /\ hist[w].cancelled \/ hist[w].error
          /\ last_writer = w
    /\ \E p \in IndexedPaths(file_index) : Basename(p) # p

(***************************************************************************)
(* Scans of trees that hold every kind of entry the filters tell apart     *)
(***************************************************************************)
\* the number of entries of the root directory
MaxEntries == 2

\* what the root directory can hold: files with an indexed extension, an
\* indexed extension in upper case, another extension and no extension, the
\* dotfile of the exception set, a hidden file, a symbolic link, an ignored
\* directory, a hidden directory, a directory that bears a name of the
\* exception set, a plain directory, an unreadable one, and a file that is
\* listed after the directories
ScanEntries == <<
    File(<<"a", ".", "p", "y">>), File(<<"b", ".", "P", "Y">>), File(<<"c", ".", "z", "z">>), File(<<"d">>), File(<<".", "g", "i", "t", "i", "g", "n", "o", "r", "e">>),
    File(<<".", "x", ".", "p", "y">>), Other(<<"l", ".", "p", "y">>), Dir(<<"n", "o", "d", "e", "_", "m", "o", "d", "u", "l", "e", "s">>), Dir(<<".", "h">>),
    Dir(<<".", "e", "n", "v", ".", "e", "x", "a", "m", "p", "l", "e">>), Dir(<<"s">>), Dir(<<"k">>),
    File(<<"m", ".", "m", "d">>) >>

\* what the directories below the root hold; s has an ignored directory
ScanSubdirs ==
    (RootP \o <<<<"n", "o", "d", "e", "_", "m", "o", "d", "u", "l", "e", "s">>>> :> << File(<<"a", ".", "p", "y">>), Dir(<<"s">>) >>)
 @@ (RootP \o <<<<"n", "o", "d", "e", "_", "m", "o", "d", "u", "l", "e", "s">>, <<"s">>>> :> << File(<<"a", ".", "p", "y">>) >>)
 @@ (RootP \o <<<<".", "h">>>> :> << File(<<"a", ".", "p", "y">>) >>)
 @@ (RootP \o <<<<".", "e", "n", "v", ".", "e", "x", "a", "m", "p", "l", "e">>>> :> << File(<<"a", ".", "p", "y">>) >>)
 @@ (RootP \o <<<<"s">>>> :> << File(<<"a", ".", "p", "y">>), Dir(<<"b", "u", "i", "l", "d">>) >>)
 @@ (RootP \o <<<<"s">>, <<"b", "u", "i", "l", "d">>>> :> << File(<<"c", ".", "j", "s">>) >>)
 @@ (RootP \o <<<<"k">>>> :> << File(<<"a", ".", "p", "y">>) >>)

RECURSIVE PickFrom(_, _)
\* the entries of ScanEntries at the positions of S, from position i on
PickFrom(S, i) ==
    IF i > Len(ScanEntries) THEN <<>>
    ELSE (IF i \in S THEN <<ScanEntries[i]>> ELSE <<>>) \o PickFrom(S, i + 1)

\* the trees scanned: a root of at most MaxEntries entries
ScanTrees ==
    {(RootP :> PickFrom(S, 1)) @@ ScanSubdirs :
        S \in {T \in SUBSET (1..Len(ScanEntries)) : Cardinality(T) <= MaxEntries}}

\* FileIndexer() on one of the trees
InitScan ==
    /\ fs \in ScanTrees
    /\ root_path = NoRoot
    /\ file_index = EmptyIndex
    /\ visible = EmptyIndex
    /\ InitCommon

\* one thread at a time rebuilds, and the GUI may cancel
NextScan ==
    \/ Rebuild(FirstWorker)
    \/ cancel_indexing
    \/ set_progress_callback

ScanSpec == InitScan /\ [][NextScan]_vars

RECURSIVE SplitPath(_)
\* the components of a relative path
SplitPath(p) ==
    LET slashes == {i \in 1..Len(p) : p[i] = "/"}
    IN  IF slashes = {} THEN <<p>>
        ELSE LET i == CHOOSE x \in slashes : \A y \in slashes : x <= y
             IN  <<SubSeq(p, 1, i - 1)>> \o SplitPath(Drop(p, i))

\* the names of the directories a relative path goes through
DirsOf(p) == LET c == SplitPath(p) IN {c[i] : i \in 1..(Len(c) - 1)}

\* the names of the directories below the root on the way to dir
DirsBelowRoot(dir) == {dir[j] : j \in (Len(root_path) + 1)..Len(dir)}

\* C18: a directory whose name is in the ignored-directory set is never
\* descended, at any depth, in the counting pass or in the build pass, and
\* no indexed path goes through one.
ThmC18 ==
    /\ \A p \in IndexedPaths(file_index) : DirsOf(p) \cap ignored_dirs = {}
    /\ \A w \in Workers : \A k \in 1..Len(stack[w]) :
          DirsBelowRoot(stack[w][k].dir) \cap ignored_dirs = {}

\* a rebuild with a counting pass has completed on a root that holds
\* node_modules (with a.py and s/a.py in it) and s (with build/c.js in it),
\* and it has indexed s/a.py only
WitC18 ==
    /\ \E w \in Workers : CompletedBuild(w) /\ hist[w].cb
    /\ fs[RootP] = << Dir(<<"n", "o", "d", "e", "_", "m", "o", "d", "u", "l", "e", "s">>), Dir(<<"s">>) >>
    /\ IndexedPaths(file_index) = {<<"s", "/", "a", ".", "p", "y">>}

RECURSIVE FilesUnder(_, _)
\* the absolute paths of the regular files of the tree below dir
FilesUnder(tree, dir) ==
    IF dir \notin DOMAIN tree THEN {}
    ELSE {dir \o <<e.name>> : e \in {x \in Range(tree[dir]) : x.kind = "file"}}
         \cup UNION {FilesUnder(tree, dir \o <<e.name>>) :
                        e \in {x \in Range(tree[dir]) : x.kind = "dir"}}

\* the name of a file passes: no leading dot unless it is in the exception
\* set, and an allowed extension (compared in lower case) or none
NamePasses(name) ==
    /\ name[1] = "." => name \in DotExceptions
    /\ Lower(SplitExt(name)) \in indexed_extensions \/ SplitExt(name) = <<>>

\* the rule as stated: no directory between the root and the file is
\* dot-prefixed or ignored, and the name passes
PassesAsStated(path, root) ==
    LET c == Drop(path, Len(root))
    IN  /\ \A i \in 1..(Len(c) - 1) : c[i][1] # "." /\ c[i] \notin ignored_dirs
        /\ NamePasses(c[Len(c)])

\* the rule with the directories as the passes treat them: the root and every
\* directory below it on the way to the file can be read, and none of these
\* directories is ignored or dot-prefixed outside the exception set
Passes(path, root) ==
    LET c == Drop(path, Len(root))
    IN  /\ \A i \in 0..(Len(c) - 1) : root \o SubSeq(c, 1, i) \notin DeniedDirs
        /\ \A i \in 1..(Len(c) - 1) :
              /\ c[i][1] = "." => c[i] \in DotExceptions
              /\ c[i] \notin ignored_dirs
        /\ NamePasses(c[Len(c)])

\* the relative paths of the files below root that pass
PassingFiles(tree, root) ==
    {RelPath(p, root) : p \in {q \in FilesUnder(tree, root) : Passes(q, root)}}

\* w's counting pass returns, with no cancel_indexing call since its rebuild
\* started, and total_files is stored
CountStored(w) ==
    /\ hist[w].cb
    /\ ~hist[w].cancelled
    /\ pc[w] \in {"try", "count"}
    /\ pc'[w] = "lock"

\* C19 (amended): a regular file is indexed by a rebuild that ends without
\* cancellation or error if and only if the root and every directory below
\* it on the file's path can be read, none of these directories is ignored
\* or dot-prefixed outside the exception set, and the file's name passes;
\* the counting pass, run only when a progress callback is set, applies the
\* same rule, so the total_files it stores when it is not cancelled is the
\* number of these files.
ThmC19 ==
    /\ [](\A w \in Workers :
            CompletedBuild(w)
            => IndexedPaths(file_index) = PassingFiles(fs, hist[w].root))
    /\ [][\A w \in Workers :
            CountStored(w)
            => _indexing_stats'.total_files
                  = Cardinality(PassingFiles(fs, hist[w].root))]_vars

\* a rebuild with a counting pass has completed on a root that holds a
\* directory named .env.example and an unreadable directory, each with a.py
\* in it: the first file is indexed and counted, the second is not
WitC19 ==
    /\ \E w \in Workers : CompletedBuild(w) /\ hist[w].cb
    /\ fs[RootP] = << Dir(<<".", "e", "n", "v", ".", "e", "x", "a", "m", "p", "l", "e">>), Dir(<<"k">>) >>
    /\ IndexedPaths(file_index) = {<<".", "e", "n", "v", ".", "e", "x", "a", "m", "p", "l", "e", "/", "a", ".", "p", "y">>}
    /\ _indexing_stats.total_files = 1

\* C19 as stated: a file is indexed if and only if no directory on its path
\* from the root is dot-prefixed or ignored and its name passes, and
\* total_files equals the final files_processed.
OrigC19 ==
    \A w \in Workers :
       CompletedBuild(w)
       => /\ IndexedPaths(file_index)
                = {RelPath(p, hist[w].root) :
                      p \in {q \in FilesUnder(fs, hist[w].root) :
                                PassesAsStated(q, hist[w].root)}}
          /\ _indexing_stats.total_files = _indexing_stats.files_processed

(***************************************************************************)
(* Directories that cannot be read                                         *)
(***************************************************************************)
\* the file lies in the subtree of a directory whose scandir raises
\* PermissionError
UnderDenied(path, root) ==
    LET c == Drop(path, Len(root))
    IN  \E i \in 0..(Len(c) - 1) : root \o SubSeq(c, 1, i) \in DeniedDirs

\* the file is eligible, readable or not: its directories below the root are
\* neither ignored nor hidden and its name passes
EligibleByName(path, root) ==
    LET c == Drop(path, Len(root))
    IN  /\ \A i \in 1..(Len(c) - 1) : ~Hidden(c[i]) /\ c[i] \notin ignored_dirs
        /\ NamePasses(c[Len(c)])

\* w's rebuild has ended, it last cleared the index, cancel_indexing was not
\* called between its start and its last event, and no scandir raised
\* anything but PermissionError
EndedWithDenialsOnly(w) ==
    /\ pc[w] = "done"
    /\ hist[w].rebuild
    /\ ~hist[w].asked
    /\ last_writer = w
    /\ errs = 0

EntersDirectory(w) ==
    /\ pc[w] \in {"check", "build"}
    /\ pc'[w] = "build"
    /\ Len(stack'[w]) > Len(stack[w])

\* the build pass of w indexes a file
ProcessesFile(w) ==
    /\ pc[w] = "build"
    /\ pc'[w] = "build"
    /\ file_index' # file_index

\* w delivers a progress event that carries the statistics as they are after
\* the step
ReportsProgress(w) ==
    calls'[w] = Append(calls[w], Progress(_indexing_stats'))

\* C23 as stated: during the build pass of a rebuild with a progress callback,
\* a progress event is delivered each time the traversal enters a directory
\* and each time files_processed reaches a multiple of 50.
OrigC23 ==
    [][\A w \in Workers :
          hist[w].cb
          => /\ EntersDirectory(w) => ReportsProgress(w)
             /\ (ProcessesFile(w) /\ _indexing_stats'.files_processed % ProgressEvery = 0)
                   => ReportsProgress(w)]_vars

(***************************************************************************)
(* Rebuilds of a root that holds enough files for a report to be due       *)
(***************************************************************************)
DigitChars == <<"0", "1", "2", "3", "4", "5", "6", "7", "8", "9">>

\* the name of the i-th file: f01, f02, ...
NumberedName(i) == <<"f", DigitChars[(i \div 10) + 1], DigitChars[(i % 10) + 1]>>

\* a root that lists as many files as make a report due, and then the
\* directory s
ProgressTree ==
    (RootP :> [i \in 1..ProgressEvery |-> File(NumberedName(i))] \o << Dir(<<"s">>) >>)
 @@ (RootP \o <<<<"s">>>> :> << File(<<"a", ".", "p", "y">>) >>)

\* FileIndexer() on that root
InitProgress ==
    /\ fs = ProgressTree
    /\ root_path = NoRoot
    /\ file_index = EmptyIndex
    /\ visible = EmptyIndex
    /\ InitCommon

\* the files_processed values of the progress events w has delivered
Processed(w) ==
    LET ev == SelectSeq(calls[w], LAMBDA e : e.t = "progress")
    IN  [i \in 1..Len(ev) |-> ev[i].fp]

\* the GUI sets the progress callback and opens the root; the index is
\* refreshed from a second thread once the first one has reported files as
\* processed and is still indexing
NextProgress ==
    \/ set_progress_callback
    \/ progress_callback /\ Rebuild(FirstWorker)
    \/ \E w \in Workers \ {FirstWorker} :
          /\ pc[w] = "idle"
                => /\ pc[FirstWorker] = "build"
                   /\ \E i \in 1..Len(Processed(FirstWorker)) :
                         Processed(FirstWorker)[i] > 0
          /\ Rebuild(w)

ProgressSpec == InitProgress /\ [][NextProgress]_vars

\* C22 as stated: the progress events of one rebuild carry non-decreasing
\* files_processed values.
OrigC22 ==
    \A w \in Workers :
       \A i, j \in 1..Len(Processed(w)) :
          i < j => Processed(w)[i] <= Processed(w)[j]

(***************************************************************************)
(* Cancellation seen by a traversal                                        *)
(***************************************************************************)
\* a root that lists the directory s before the file m.md
CancelTree ==
    (RootP :> << Dir(<<"s">>), File(<<"m", ".", "m", "d">>) >>)
 @@ (RootP \o <<<<"s">>>> :> << File(<<"a", ".", "p", "y">>) >>)

\* FileIndexer() on that root
InitCancel ==
    /\ fs = CancelTree
    /\ root_path = NoRoot
    /\ file_index = EmptyIndex
    /\ visible = EmptyIndex
    /\ InitCommon

CancelSpec == InitCancel /\ [][Indexing]_vars

\* the traversal of w opens a directory
OpensDirectory(w) ==
    /\ pc[w] \in {"count", "build"}
    /\ Len(stack'[w]) > Len(stack[w])

\* the build pass of w adds an entry to the index
AddsEntry(w) ==
    /\ pc[w] = "build"
    /\ file_index' # file_index

\* C24 as stated: once a level of a traversal has left its loop on the cancel
\* flag, the traversal opens no further directory and adds no further entry
\* to the index.
OrigC24 ==
    [][\A w \in Workers :
          hist[w].seen => ~OpensDirectory(w) /\ ~AddsEntry(w)]_vars

\* C30 as stated: a rebuild during which cancel_indexing was called, at any
\* point between its start and its terminal event, ends with the `cancelled`
\* event and not with `completed`.
OrigC30 ==
    \A w \in Workers :
       (pc[w] = "done" /\ hist[w].rebuild /\ hist[w].cb /\ hist[w].asked)
       => /\ \E i \in 1..Len(calls[w]) : calls[w][i] = Event("cancelled")
          /\ \A i \in 1..Len(calls[w]) : calls[w][i] # Event("completed")

\* the indexed paths that have a key matching q in some tier
MatchingPaths(idx, q) ==
    {p \in IndexedPaths(idx) :
        \E k \in DOMAIN idx.map :
           p \in idx.map[k] /\ TierOf(k, q, ReCompile(q) = "ok") # "none"}

\* C29 as stated: search_files(q, N) returns exactly min(N, D) paths, D being
\* the number of distinct indexed paths with a key that matches q.
OrigC29 ==
    (SearchReturned /\ CleanQuery(sarg.query) # <<>>)
    => LET D == Cardinality(MatchingPaths(file_index, CleanQuery(sarg.query)))
       IN  Len(sres.paths) = IF sarg.limit < D THEN sarg.limit ELSE D

\* the path-like tokens of the text that name no file
Unresolved(text) ==
    {t \in Range(FindAllRefs(text, 1)) :
        ~get_file_content(root_path, ProjectFiles, t).some}

\* C25 as stated, for a text rendered with a root set: the references
\* extracted are the tokens that resolve, in text order, and every token that
\* does not resolve is still written in the rendered text.
OrigC25 ==
    cp.stage = "rendered"
    => /\ Refs = SelectSeq(FindAllRefs(cp.text, 1), LAMBDA m : m \in DOMAIN ProjectFiles)
       /\ \A t \in Unresolved(cp.text) : Contains(cp.shown, t)

(***************************************************************************)
(* HistoryManager: the prompt history of a project                         *)
(***************************************************************************)
\* HistoryManager calls of a run
MaxCalls == 3

\* the seconds the clock may advance during a run
MaxClock == 1

\* the history keeps this many entries
HistoryCap == 100

\* the preview keeps this many characters of the text
PreviewLen == 100

\* str(n) for n >= 0
RECURSIVE Dec(_)
Dec(n) ==
    IF n < Len(DigitChars) THEN <<DigitChars[n + 1]>>
    ELSE Dec(n \div Len(DigitChars)) \o <<DigitChars[(n % Len(DigitChars)) + 1]>>

\* f"prompt_{len(self.history)}_{int(datetime.now().timestamp())}"
PromptId(len, second) == <<"p", "r", "o", "m", "p", "t", "_">> \o Dec(len) \o <<"_">> \o Dec(second)

\* prompt_text[:100], with "..." after it when the text is longer
Preview(text) ==
    Take(text, PreviewLen) \o (IF Len(text) > PreviewLen THEN <<".", ".", ".">> ELSE <<>>)

\* title or ""
TitleOrEmpty(title) == IF title = PyNone THEN <<>> ELSE title

\* the dict add_prompt builds; made is the rank of the entry among the
\* entries ever made, which the timestamp's microseconds record
PromptEntry(id, text, path, title, made) ==
    [id |-> id, text |-> text, preview |-> Preview(text), timestamp |-> clock,
     project_path |-> path, title |-> TitleOrEmpty(title), made |-> made]

\* a text longer than the preview
LongText == [i \in 1..(PreviewLen + 1) |-> "x"]

\* the texts, project paths and titles passed to add_prompt
PromptTexts == {<<"a">>, LongText}

PromptTitles == {PyNone, <<"t">>}

PromptPaths == {<<"/", "p">>}

\* the history n calls of add_prompt left in the history file, newest first
SavedHistory(n) ==
    [i \in 1..n |->
        [id |-> PromptId(n - i, 0), text |-> <<"a">>, preview |-> <<"a">>,
         timestamp |-> 0, project_path |-> PyNone, title |-> <<>>,
         made |-> n - i + 1]]

\* HistoryManager(history_file): the file is absent, or holds what an
\* earlier manager saved, here one entry short of the cap or at the cap
LoadedHistories == {SavedHistory(0), SavedHistory(HistoryCap - 1),
                    SavedHistory(HistoryCap)}

\* the last entry with that id, else None
get_promptLastMatch(h, prompt_id) ==
    IF \E i \in 1..Len(h) : h[i].id = prompt_id
    THEN h[CHOOSE i \in 1..Len(h) :
                /\ h[i].id = prompt_id
                /\ \A j \in (i + 1)..Len(h) : h[j].id # prompt_id]
    ELSE NoPrompt

\* get_prompt(prompt_id): the first entry with that id, else None
get_prompt(h, prompt_id) ==
    IF \E i \in 1..Len(h) : h[i].id = prompt_id
    THEN h[CHOOSE i \in 1..Len(h) :
                /\ h[i].id = prompt_id
                /\ \A j \in 1..(i - 1) : h[j].id # prompt_id]
    ELSE NoPrompt

\* get_all_prompts(): a copy of the history
get_all_prompts(h) == h

\* save_history(): writes the history to the file, which is writable
save_history(h) == history_file' = h

\* add_prompt keeping the oldest entries when the cap is exceeded
add_promptKeepsOldest(prompt_text, project_path, title) ==
    /\ ncalls < MaxCalls
    /\ LET prompt_id == PromptId(Len(history), clock)
           prompt_entry == PromptEntry(prompt_id, prompt_text, project_path,
                                       title, HistoryCap + ncalls + 1)
           inserted == <<prompt_entry>> \o history
           kept == IF Len(inserted) > HistoryCap
                   THEN SubSeq(inserted, 2, HistoryCap + 1) ELSE inserted
       IN  /\ history' = kept
           /\ save_history(kept)
           /\ hcall' = [op |-> "add", id |-> prompt_id, text |-> prompt_text,
                        title |-> title, result |-> prompt_id,
                        before |-> history]
    /\ ncalls' = ncalls + 1
    /\ UNCHANGED clock

add_prompt(prompt_text, project_path, title) ==
    /\ ncalls < MaxCalls
    /\ LET prompt_id == PromptId(Len(history), clock)
           prompt_entry == PromptEntry(prompt_id, prompt_text, project_path,
                                       title, HistoryCap + ncalls + 1)
           inserted == <<prompt_entry>> \o history
           kept == IF Len(inserted) > HistoryCap
                   THEN SubSeq(inserted, 1, HistoryCap) ELSE inserted
       IN  /\ history' = kept
           /\ save_history(kept)
           /\ hcall' = [op |-> "add", id |-> prompt_id, text |-> prompt_text,
                        title |-> title, result |-> prompt_id,
                        before |-> history]
    /\ ncalls' = ncalls + 1
    /\ UNCHANGED clock

delete_prompt(prompt_id) ==
    /\ IF \E i \in 1..Len(history) : history[i].id = prompt_id
       THEN LET i == CHOOSE k \in 1..Len(history) :
                        /\ history[k].id = prompt_id
                        /\ \A j \in 1..(k - 1) : history[j].id # prompt_id
                left == SubSeq(history, 1, i - 1) \o
                        SubSeq(history, i + 1, Len(history))
            IN  /\ history' = left
                /\ save_history(left)
                /\ hcall' = [NoHCall EXCEPT !.op = "delete", !.id = prompt_id,
                                            !.result = TRUE, !.before = history]
       ELSE /\ hcall' = [NoHCall EXCEPT !.op = "delete", !.id = prompt_id,
                                        !.result = FALSE, !.before = history]
            /\ UNCHANGED <<history, history_file>>
    /\ ncalls < MaxCalls
    /\ ncalls' = ncalls + 1
    /\ UNCHANGED clock

clear_history ==
    /\ history' = <<>>
    /\ save_history(<<>>)
    /\ hcall' = [NoHCall EXCEPT !.op = "clear", !.before = history]
    /\ ncalls < MaxCalls
    /\ ncalls' = ncalls + 1
    /\ UNCHANGED clock

\* a second passes
SecondPasses ==
    /\ clock < MaxClock
    /\ clock' = clock + 1
    /\ UNCHANGED <<history, history_file, ncalls, hcall>>

\* the ids a caller uses: those of the newest entries and of the oldest one,
\* the last one returned, and one that was never given out
KnownIds ==
    {history[i].id : i \in {k \in 1..Len(history) : k <= MaxCalls \/ k = Len(history)}}
        \cup {hcall.id, <<"n", "o", "p", "e">>}

\* the rest of the program is at rest while the history is used
OnlyHistory ==
    UNCHANGED <<cp, fs, indexer, pc, stack, calls, readers, nstarts, errs, hist,
                visible, last_writer, projects, project_dicts,
                current_project_id, current_project_data, app_data_dir,
                projects_file, pcall>>

\* the ProjectManager is not in use
NoProjects ==
    /\ projects = <<>>
    /\ project_dicts = [dicts |-> <<>>, settings |-> <<>>]
    /\ current_project_id = PyNone
    /\ current_project_data = NoRef
    /\ app_data_dir = "d1"
    /\ projects_file = [d \in DataDirs |-> <<>>]
    /\ pcall = NoPCall

\* the indexer and the editor are not in use
IndexerIdle ==
    /\ fs = MainTree
    /\ root_path = NoRoot
    /\ file_index = EmptyIndex
    /\ visible = EmptyIndex
    /\ _cancel_indexing = FALSE
    /\ _indexing_stats = ZeroStats
    /\ _lock = "none"
    /\ progress_callback = FALSE
    /\ update_callback = FALSE
    /\ pc = [w \in Workers |-> "idle"]
    /\ stack = [w \in Workers |-> <<>>]
    /\ calls = [w \in Workers |-> <<>>]
    /\ spc = "idle"
    /\ sarg = [query |-> <<>>, limit |-> 0]
    /\ sres = Returned(<<>>)
    /\ rd = NoRead
    /\ nstarts = 0
    /\ errs = 0
    /\ hist = [w \in Workers |-> NoHist]
    /\ last_writer = "none"
    /\ cp = NoText

\* HistoryManager(history_file)
InitHistory ==
    /\ IndexerIdle
    /\ NoProjects
    /\ history \in LoadedHistories
    /\ history_file = history
    /\ clock = 0
    /\ ncalls = 0
    /\ hcall = NoHCall

NextHistory ==
    \/ OnlyHistory /\ \E t \in PromptTexts, p \in PromptPaths, ti \in PromptTitles :
                        add_prompt(t, p, ti)
    \/ OnlyHistory /\ \E id \in KnownIds : delete_prompt(id)
    \/ OnlyHistory /\ clear_history
    \/ OnlyHistory /\ SecondPasses

HistorySpec == InitHistory /\ [][NextHistory]_vars

\* the history is ordered most recent first: each entry was made after the
\* one that follows it
NewestFirst(h) ==
    \A i \in 1..(Len(h) - 1) : h[i].made > h[i + 1].made

\* C26: after add_prompt(text, project_path, title) returned id,
\* get_prompt(id) is an entry with the text and the title passed (an empty
\* title when none was passed), it is the first element of
\* get_all_prompts(), and after any sequence of add_prompt and delete_prompt
\* calls the history is ordered most recent first
ThmC26 ==
    /\ hcall.op = "add" =>
          LET e == get_prompt(history, hcall.result)
          IN  /\ e # NoPrompt
              /\ e.text = hcall.text
              /\ e.title = (IF hcall.title = PyNone THEN <<>> ELSE hcall.title)
              /\ e = get_all_prompts(history)[1]
              /\ e.made > HistoryCap
              /\ \A i \in 2..Len(history) : history[i].made < e.made
    /\ NewestFirst(get_all_prompts(history))

\* add_prompt with a title returned an id that an older entry has as well,
\* in a history at its cap
WitC26 ==
    /\ hcall.op = "add"
    /\ hcall.title = <<"t">>
    /\ Len(history) = HistoryCap
    /\ \E i \in 2..Len(history) : history[i].id = hcall.result

\* h without its i-th entry
WithoutEntry(h, i) == SubSeq(h, 1, i - 1) \o SubSeq(h, i + 1, Len(h))

\* the id is the id of an entry of h
HasId(h, prompt_id) == \E i \in 1..Len(h) : h[i].id = prompt_id

\* C27: delete_prompt(id) for an id in the history removes an entry of that
\* id, returns True and leaves the other entries and their order as they
\* were, after which get_prompt(id) is None; for an id not in the history it
\* returns False and leaves the history as it was; clear_history leaves the
\* history empty
OrigC27 ==
    /\ (hcall.op = "delete" /\ HasId(hcall.before, hcall.id)) =>
          /\ hcall.result = TRUE
          /\ \E i \in 1..Len(hcall.before) :
                /\ hcall.before[i].id = hcall.id
                /\ history = WithoutEntry(hcall.before, i)
          /\ get_prompt(history, hcall.id) = NoPrompt
    /\ (hcall.op = "delete" /\ ~HasId(hcall.before, hcall.id)) =>
          /\ hcall.result = FALSE
          /\ history = hcall.before
    /\ hcall.op = "clear" => history = <<>>


(***************************************************************************)
(* ProjectManager: the projects and the current project                    *)
(***************************************************************************)
\* os.getcwd()
Cwd == <<"/", "w">>

\* hexdigest()[:12]
IdLen == 12

HexChars == DigitChars \o <<"a", "b", "c", "d", "e", "f">>

\* os.path.abspath before its normpath: os.path.join(os.getcwd(), path)
\* for a relative path
AbsPath(path) ==
    IF path # <<>> /\ Head(path) = "/" THEN path ELSE Cwd \o <<"/">> \o path

RECURSIVE Collapse(_, _)
\* the components normpath keeps: no empty one, no ".", and ".." removes
\* the component before it (at the root it is dropped)
Collapse(comps, kept) ==
    IF comps = <<>> THEN kept
    ELSE LET c == Head(comps) IN
         IF c = <<>> \/ c = <<".">> THEN Collapse(Tail(comps), kept)
         ELSE IF c = <<".", ".">>
         THEN Collapse(Tail(comps), SubSeq(kept, 1, Len(kept) - 1))
         ELSE Collapse(Tail(comps), Append(kept, c))

\* os.path.normpath(os.path.abspath(path)); two leading slashes, and only
\* two, are kept
NormPath(path) ==
    LET abs   == AbsPath(path)
        two   == /\ Len(abs) >= 2
                 /\ abs[2] = "/"
                 /\ (Len(abs) = 2 \/ abs[3] # "/")
        front == IF two THEN <<"/", "/">> ELSE <<"/">>
    IN  front \o JoinPath(Collapse(SplitPath(abs), <<>>))

RECURSIVE Checksum(_)
\* a digest of the string: the same for equal strings, and for some
\* different ones
Checksum(str) == IF str = <<>> THEN 0 ELSE Code(Head(str)) + Checksum(Tail(str))

RECURSIVE Hex(_, _)
\* the last n hexadecimal digits of v
Hex(v, n) ==
    IF n = 0 THEN <<>>
    ELSE Hex(v \div Len(HexChars), n - 1) \o <<HexChars[(v % Len(HexChars)) + 1]>>

\* the id of the path as it was passed, not normalised
_generate_project_idAsPassed(project_path) == Hex(Checksum(project_path), IdLen)

\* hashlib.md5(normalized_path.encode()).hexdigest()[:12]
_generate_project_id(project_path) == Hex(Checksum(NormPath(project_path)), IdLen)

RECURSIVE RStripSep(_)
\* project_path.rstrip(os.sep)
RStripSep(path) ==
    IF path # <<>> /\ path[Len(path)] = "/"
    THEN RStripSep(SubSeq(path, 1, Len(path) - 1)) ELSE path

\* global_settings.default_ignored_dirs and default_indexed_extensions
DefaultSettings == [ignored_dirs |-> "default", indexed_extensions |-> "default"]

\* dict.update(other)
DictUpdate(dict, other) ==
    [k \in DOMAIN dict \cup DOMAIN other |->
        IF k \in DOMAIN other THEN other[k] ELSE dict[k]]

\* the mapping with key k set to v, and with key k removed
Put(map, k, v) == [x \in DOMAIN map \cup {k} |-> IF x = k THEN v ELSE map[x]]

Del(map, k) == [x \in DOMAIN map \ {k} |-> map[x]]

\* the project dict behind a reference, its settings dict included
Deref(heap, ref) ==
    [heap.dicts[ref] EXCEPT !.settings = heap.settings[heap.dicts[ref].settings]]

\* the projects map as json.dump writes it
Dumped(projs, heap) == [k \in DOMAIN projs |-> Deref(heap, projs[k])]

\* save_projects(): writes the projects to projects.json of the data
\* directory, which is writable
save_projects(projs, heap, dir) ==
    projects_file' = [projects_file EXCEPT ![dir] = Dumped(projs, heap)]

RECURSIVE Loaded(_, _, _, _)
\* json.load makes new dicts: the heap and the projects map after the
\* entries of the file under the keys ks were loaded
Loaded(file, ks, heap, projs) ==
    IF ks = {} THEN [heap |-> heap, projects |-> projs]
    ELSE LET k == CHOOSE x \in ks : TRUE
             h == [dicts |-> Append(heap.dicts,
                        [file[k] EXCEPT !.settings = Len(heap.settings) + 1]),
                   settings |-> Append(heap.settings, file[k].settings)]
         IN  Loaded(file, ks \ {k}, h, Put(projs, k, Len(h.dicts)))

\* get_project(project_id) and get_current_project()
get_project(project_id) ==
    IF project_id \in DOMAIN projects
    THEN Deref(project_dicts, projects[project_id]) ELSE [id |-> PyNone]

get_current_project ==
    IF current_project_data # NoRef
    THEN Deref(project_dicts, current_project_data) ELSE [id |-> PyNone]

\* what a ProjectManager call records of the call before it
Prior == [op |-> pcall.op, path |-> pcall.path, id |-> pcall.id]

\* a call is counted
Counted ==
    /\ ncalls < MaxCalls
    /\ ncalls' = ncalls + 1

create_or_update_project(project_path, name) ==
    /\ Counted
    /\ LET project_id == _generate_project_id(project_path)
           shown == IF name = PyNone \/ name = <<>>
                    THEN Basename(RStripSep(project_path)) ELSE name
           known == project_id \in DOMAIN projects
           existing == project_dicts.dicts[projects[project_id]]
           project_data ==
               [id |-> project_id, name |-> shown, path |-> project_path,
                created |-> IF known THEN existing.created ELSE clock,
                last_accessed |-> clock,
                settings |-> IF known THEN existing.settings
                             ELSE Len(project_dicts.settings) + 1]
           heap == [dicts |-> Append(project_dicts.dicts, project_data),
                    settings |-> Append(project_dicts.settings, DefaultSettings)]
           projs == Put(projects, project_id, Len(heap.dicts))
       IN  /\ project_dicts' = heap
           /\ projects' = projs
           /\ save_projects(projs, heap, app_data_dir)
           /\ pcall' = [op |-> "create", path |-> project_path, id |-> project_id,
                        result |-> project_id,
                        before |-> Dumped(projects, project_dicts),
                        prior |-> Prior]
    /\ UNCHANGED <<clock, current_project_id, current_project_data, app_data_dir>>

set_current_project(project_id) ==
    /\ Counted
    /\ IF project_id \in DOMAIN projects
       THEN LET ref == projects[project_id]
                heap == [project_dicts EXCEPT !.dicts[ref].last_accessed = clock]
            IN  /\ current_project_id' = project_id
                /\ current_project_data' = ref
                /\ project_dicts' = heap
                /\ save_projects(projects, heap, app_data_dir)
                /\ pcall' = [op |-> "set_current", path |-> <<>>,
                             id |-> project_id, result |-> TRUE,
                             before |-> Dumped(projects, project_dicts),
                             prior |-> Prior]
       ELSE /\ pcall' = [op |-> "set_current", path |-> <<>>,
                         id |-> project_id, result |-> FALSE,
                         before |-> Dumped(projects, project_dicts),
                         prior |-> Prior]
            /\ UNCHANGED <<current_project_id, current_project_data,
                           project_dicts, projects_file>>
    /\ UNCHANGED <<clock, projects, app_data_dir>>

update_project_settings(project_id, settings) ==
    /\ Counted
    /\ IF project_id \in DOMAIN projects
       THEN LET sref == project_dicts.dicts[projects[project_id]].settings
                heap == [project_dicts EXCEPT
                            !.settings[sref] = DictUpdate(@, settings)]
            IN  /\ project_dicts' = heap
                /\ save_projects(projects, heap, app_data_dir)
       ELSE UNCHANGED <<project_dicts, projects_file>>
    /\ pcall' = [op |-> "update_settings", path |-> <<>>, id |-> project_id,
                 result |-> PyNone, before |-> Dumped(projects, project_dicts),
                 prior |-> Prior]
    /\ UNCHANGED <<clock, projects, current_project_id, current_project_data,
                   app_data_dir>>

delete_project(project_id) ==
    /\ Counted
    /\ IF project_id \in DOMAIN projects
       THEN /\ projects' = Del(projects, project_id)
            /\ save_projects(Del(projects, project_id), project_dicts, app_data_dir)
            /\ IF current_project_id = project_id
               THEN /\ current_project_id' = PyNone
                    /\ current_project_data' = NoRef
               ELSE UNCHANGED <<current_project_id, current_project_data>>
       ELSE UNCHANGED <<projects, projects_file, current_project_id,
                        current_project_data>>
    /\ pcall' = [op |-> "delete", path |-> <<>>, id |-> project_id,
                 result |-> (project_id \in DOMAIN projects),
                 before |-> Dumped(projects, project_dicts), prior |-> Prior]
    /\ UNCHANGED <<clock, project_dicts, app_data_dir>>

\* set_app_data_dir(path) loads the projects saved in the directory
set_app_data_dir(path) ==
    /\ Counted
    /\ IF path = ""
       THEN UNCHANGED <<app_data_dir, projects, project_dicts>>
       ELSE LET file == projects_file[path]
                l == Loaded(file, DOMAIN file, project_dicts, <<>>)
            IN  /\ app_data_dir' = path
                /\ projects' = l.projects
                /\ project_dicts' = l.heap
    /\ pcall' = [op |-> "set_app_data_dir", path |-> <<>>, id |-> <<>>,
                 result |-> PyNone, before |-> Dumped(projects, project_dicts),
                 prior |-> Prior]
    /\ UNCHANGED <<clock, projects_file, current_project_id, current_project_data>>

\* time passes between the calls
TimePasses ==
    /\ clock < MaxClock
    /\ clock' = clock + 1
    /\ UNCHANGED <<ncalls, projects, project_dicts, current_project_id,
                   current_project_data, app_data_dir, projects_file, pcall>>

\* the paths and names passed to create_or_update_project: one directory
\* written in two ways, the second time with a name, and two directories of
\* the same digest
ProjectArgs == {<<<<"/", "p">>, PyNone>>, <<<<"/", "q", "/", ".", ".", "/", "p", "/">>, <<"n">>>>,
                <<<<"/", "p", "q">>, PyNone>>, <<<<"/", "q", "p">>, PyNone>>}

\* the ids a caller uses: those of the projects and one that was never
\* given out
ProjectIds == DOMAIN projects \cup {<<"n", "o", "p", "e">>}

\* the settings passed to update_project_settings
SettingsChoices == {[ignored_dirs |-> "custom"]}

\* the rest of the program is at rest while the projects are used
OnlyProjects ==
    UNCHANGED <<cp, fs, indexer, pc, stack, calls, readers, nstarts, errs, hist,
                visible, last_writer, history, history_file, hcall>>

\* ProjectManager(global_settings) on a data directory with no projects.json
InitProjects ==
    /\ IndexerIdle
    /\ ManagersIdle

NextProjects ==
    \/ OnlyProjects /\ \E a \in ProjectArgs :
                          create_or_update_project(a[1], a[2])
    \/ OnlyProjects /\ \E id \in ProjectIds : set_current_project(id)
    \/ OnlyProjects /\ \E id \in ProjectIds, st \in SettingsChoices :
                          update_project_settings(id, st)
    \/ OnlyProjects /\ \E id \in ProjectIds : delete_project(id)
    \/ OnlyProjects /\ \E d \in DataDirs \cup {""} : set_app_data_dir(d)
    \/ OnlyProjects /\ TimePasses

ProjectSpec == InitProjects /\ [][NextProjects]_vars

\* the ids of the projects whose path is the path given, once normalised
EntriesFor(dumped, path) ==
    {k \in DOMAIN dumped : NormPath(dumped[k].path) = NormPath(path)}

\* C28: when create_or_update_project(path) has returned id, id is the id
\* the project of that normalised path had before the call, if there was
\* one, and then its 'created' and 'settings' are as they were; id is in
\* projects and exactly one entry is kept for the path; and when
\* set_current_project(id) is called next it returns True, after which
\* get_current_project() reports the path passed
ThmC28 ==
    LET now == Dumped(projects, project_dicts) IN
    /\ pcall.op = "create" =>
          /\ pcall.result \in DOMAIN projects
          /\ EntriesFor(now, pcall.path) = {pcall.result}
          /\ now[pcall.result].path = pcall.path
          /\ \A k \in EntriesFor(pcall.before, pcall.path) :
                /\ k = pcall.result
                /\ now[k].created = pcall.before[k].created
                /\ now[k].settings = pcall.before[k].settings
    /\ (pcall.op = "set_current" /\ pcall.prior.op = "create"
            /\ pcall.id = pcall.prior.id) =>
          /\ pcall.result = TRUE
          /\ get_current_project.path = pcall.prior.path

\* the project of /p, made a second earlier and given settings of its own,
\* was updated under another spelling of its path
WitC28 ==
    /\ pcall.op = "create"
    /\ \E k \in EntriesFor(pcall.before, pcall.path) :
          /\ pcall.before[k].path # pcall.path
          /\ pcall.before[k].created < clock
          /\ pcall.before[k].settings # DefaultSettings


\* C36: the history never holds more than 100 entries and is ordered newest
\* first; after add_prompt it is the new entry followed by the entries it
\* held before, cut to the first 100, so the entry dropped at the cap is the
\* oldest one
ThmC36 ==
    /\ Len(history) <= HistoryCap
    /\ NewestFirst(history)
    /\ hcall.op = "add" =>
          /\ history # <<>>
          /\ history[1].text = hcall.text
          /\ \A i \in 1..Len(hcall.before) : hcall.before[i].made < history[1].made
          /\ Tail(history) = Take(hcall.before, HistoryCap - 1)
          /\ \A i \in 1..Len(hcall.before) :
                hcall.before[i].made >= hcall.before[Len(hcall.before)].made

\* add_prompt was called on a history at its cap
WitC36 ==
    /\ hcall.op = "add"
    /\ Len(hcall.before) = HistoryCap
    /\ Len(history) = HistoryCap
    /\ history[1].made > HistoryCap

\* C37: no two entries of the history share an id
OrigC37 ==
    \A i, j \in 1..Len(history) : i < j => history[i].id # history[j].id

\* the current project is None or a project of the projects map whose data
\* get_current_project() returns
CurrentIsKnown ==
    \/ /\ current_project_id = PyNone
       /\ current_project_data = NoRef
    \/ /\ current_project_id \in DOMAIN projects
       /\ get_current_project = get_project(current_project_id)

\* C38: after any sequence of ProjectManager calls the current project is
\* None or a project present in the projects map, and get_current_project()
\* returns the data get_project(current_project_id) returns;
\* set_current_project with an unknown id returns False and leaves the
\* current project as it was
OrigC38 ==
    /\ [](CurrentIsKnown)
    /\ [][(pcall'.op = "set_current" /\ ncalls' # ncalls
              /\ pcall'.id \notin DOMAIN projects)
            => /\ pcall'.result = FALSE
               /\ UNCHANGED <<current_project_id, current_project_data>>]_vars


(***************************************************************************)
(* The end of a rebuild                                                    *)
(***************************************************************************)
\* the step delivers the event of type t as w's next call of the progress
\* callback
Delivers(w, t) ==
    /\ Len(calls'[w]) = Len(calls[w]) + 1
    /\ calls'[w][Len(calls'[w])].t = t

\* an event of type t is among the calls w's rebuild has made
Delivered(w, t) == \E i \in 1..Len(calls[w]) : calls[w][i].t = t

\* C31: whenever `completed` is delivered, the visible index contains every
\* eligible file under the root of the rebuild, and no `error` event was
\* delivered before it
OrigC31 ==
    [][\A w \in Workers :
          Delivers(w, "completed")
          => /\ ~Delivered(w, "error")
             /\ EligibleFiles(fs, hist[w].root) \subseteq IndexedPaths(visible')]_vars


\* the number of calls of update_callback w's rebuild has made
Updates(w) == Cardinality({i \in 1..Len(calls[w]) : calls[w][i].t = "update"})

\* w passes the statement after the with block
PassesUpdate(w) == pc[w] = "after" /\ pc'[w] = "finally"

\* C32: a rebuild that replaced the index with a complete build (no error
\* was raised and cancel_indexing was not called during its scan) invokes
\* update_callback, when one is set, once, after the build pass and with the
\* index lock released; a rebuild that was cancelled or raised an error never
\* invokes it
OrigC32 ==
    /\ [](\A w \in Workers :
             /\ Updates(w) <= 1
             /\ (hist[w].cancelled \/ hist[w].error) => Updates(w) = 0)
    /\ [][\A w \in Workers :
             (PassesUpdate(w) /\ update_callback)
             => /\ Delivers(w, "update") <=> ~hist[w].cancelled
                /\ _lock # w]_vars


(***************************************************************************)
(* Overlapping rebuilds                                                    *)
(***************************************************************************)
\* w is in its build pass, under the lock
InBuildPass(w) == pc[w] \in {"clear", "check", "build"}

\* the last call w's rebuild made to the progress callback
LastCall(w) == calls[w][Len(calls[w])]

\* every rebuild has ended, one at least was run, and none was cancelled or
\* raised an error
AllEndedUndisturbed ==
    /\ \A w \in Workers : ~Active(w)
    /\ \E w \in Workers : hist[w].rebuild
    /\ \A w \in Workers :
          hist[w].rebuild => ~hist[w].asked /\ ~hist[w].cancelled /\ ~hist[w].error

\* C33: overlapping refresh_index calls never run their build passes at the
\* same time; a progress event a rebuild delivers in its build pass carries
\* the number of files that rebuild has indexed and the total that rebuild
\* has counted; and, absent cancellation and errors, once all of them have
\* ended the index holds the eligible files of the root
OrigC33 ==
    /\ [](Cardinality({w \in Workers : InBuildPass(w)}) <= 1)
    /\ [](AllEndedUndisturbed
             => IndexedPaths(file_index) = EligibleFiles(fs, root_path))
    /\ [][\A w \in Workers :
             (Delivers(w, "progress") /\ InBuildPass(w) /\ ~hist[w].asked)
             => /\ LastCall(w)'.fp = Cardinality(IndexedPaths(file_index'))
                /\ LastCall(w)'.total = Cardinality(PassingFiles(fs, hist[w].root))]_vars


(***************************************************************************)
(* Termination                                                             *)
(***************************************************************************)
\* the steps of a refresh_index call that has begun
Runs(w) ==
    \/ RefreshTry(w)
    \/ CountStep(w)
    \/ AcquireLock(w)
    \/ ClearIndex(w)
    \/ BuildCheck(w)
    \/ BuildStep(w)
    \/ BuildDone(w)
    \/ AfterBuild(w)
    \/ Except(w)
    \/ Finally(w)

\* the GUI opens the root q and refreshes its index, each time from a thread
\* that makes this one call, cancels, and searches
NextLive ==
    \/ \E w \in Workers : pc[w] = "idle" /\ set_root_path(w, RootQ)
    \/ \E w \in Workers : pc[w] = "idle" /\ refresh_index(w)
    \/ \E w \in Workers : Runs(w)
    \/ cancel_indexing
    \/ set_progress_callback
    \/ SearchCall(<<"a">>, MaxLimit)
    \/ SearchRun
    \/ SearchReturn

\* every thread that can take a step is scheduled in the end.  The last
\* conjunct is WF_vars(SearchRun) written without ENABLED: SearchRun can be
\* taken exactly when a search waits and the lock is free, and it ends in a
\* state where no search waits
LiveSpec ==
    /\ Init
    /\ [][NextLive]_vars
    /\ \A w \in Workers : WF_vars(Runs(w))
    /\ []<>~(spc = "wait" /\ _lock = "none")

\* C34: every refresh_index call ends, with the index lock released and,
\* when a progress callback was set, with a terminal event delivered, and
\* every search_files call that waits for the lock returns
ThmC34 ==
    /\ \A w \in Workers : Active(w) ~> (pc[w] = "done" /\ _lock # w)
    /\ [](\A w \in Workers :
             (pc[w] = "done" /\ hist[w].rebuild)
             => /\ _lock # w
                /\ hist[w].cb => Terminals(w) # <<>>)
    /\ (spc = "wait") ~> (spc = "done")

\* a search_files call waits for the lock while a rebuild that has raised an
\* exception and one that was cancelled are running
WitC34 ==
    /\ spc = "wait"
    /\ \E w, v \in Workers :
          /\ w # v
          /\ pc[w] = "except"
          /\ Active(v) /\ hist[v].asked
          /\ _lock = v


(***************************************************************************)
(* An edited text collapsed and rendered again                             *)
(***************************************************************************)
RECURSIVE TrimBodies(_, _)
\* s from position i on with the body of every recognised block trimmed
TrimBodies(s, i) ==
    IF i > Len(s) THEN <<>>
    ELSE LET b == BlockAt(s, i)
         IN  IF b.found
             THEN SubSeq(s, i, b.body - 1) \o Strip(b.content) \o Fence
                  \o TrimBodies(s, b.last + 1)
             ELSE <<s[i]>> \o TrimBodies(s, i + 1)

\* the places of s at which p is written
Places(s, p) == {i \in 1..Len(s) : OccursAt(s, p, i)}

\* every block of s is recognised, names a file of the project, and its path
\* is written in s once; s holds no fence but those of its blocks
OnePathOneBlock(s) ==
    LET blocks == FindAllBlocks(s, 1) IN
    /\ blocks # <<>>
    /\ \A k \in 1..Len(blocks) :
          /\ blocks[k].file_path \in DOMAIN ProjectFiles
          /\ Cardinality(Places(s, blocks[k].file_path)) = 1
    /\ Cardinality(Places(s, Fence)) = 2 * Len(blocks)

\* the text shown rendered again from what was collapsed and captured
Expanded == process_content_for_copy(root_path, ProjectFiles, cp.raw, cp.found)

\* C35 as stated: an edited rendered text in which each path is written in
\* one block, collapsed and rendered again with the edits captured from it,
\* is the text again up to the white space around the bodies of its blocks.
OrigC35 ==
    (/\ cp.stage = "collapsed"
     /\ cp.from = "edited"
     /\ OnePathOneBlock(cp.shown))
    => TrimBodies(Expanded, 1) = TrimBodies(cp.shown, 1)
====
